---- MODULE Spec2Model ----
(***************************************************************************)
(* Model of OpenClawClient (src/unnamed/part_001, lines 1154-1661): the    *)
(* transport and reconnection logic, the handshake, the request/response   *)
(* correlator and the per-session stream reassembler.                      *)
(*                                                                         *)
(* Every handler of the client runs to completion (single-threaded event   *)
(* loop), so each handler is one action.  Text is a sequence of one-char   *)
(* strings.  The variables op, emitted and sentNow record the handler that *)
(* ran in the last step, the subscriber events it emitted and the frames   *)
(* it sent, settledNow the settlements of call() promises it made; calls   *)
(* and chunkCat are history variables for the promises returned by call()  *)
(* and the chunks emitted per session stream.                              *)
(***************************************************************************)
EXTENDS Integers, Sequences, FiniteSets, TLC

VARIABLES
    socks,                \* every WebSocket created by connect(), in creation order
    ws,                   \* this.ws: index into socks, 0 = null
    scheme,               \* scheme of this.url: "ws" or "wss"
    requestId,            \* this.requestId
    pendingRequests,      \* keys of this.pendingRequests
    timers,               \* ids whose 30 s setTimeout of call() has not fired yet
    authenticated,        \* this.authenticated
    reconnectAttempts,    \* this.reconnectAttempts
    maxReconnectAttempts, \* this.maxReconnectAttempts
    reconnectTimers,      \* number of setTimeout callbacks of attemptReconnect not yet fired
    sessionStreams,       \* this.sessionStreams: session key -> SessionStreamState
    parentSessionKeys,    \* this.parentSessionKeys
    defaultSessionKey,    \* this.defaultSessionKey, NoKey = null
    sessionKeyResolved,   \* this.sessionKeyResolved
    calls,                \* history: request id -> promise returned by call()
    chunkCat,             \* history: session key -> concatenation of the streamChunk texts
    op,                   \* the handler that ran in the last step and its inputs
    emitted,              \* subscriber events emitted by the last step, in order
    sentNow,              \* frames handed to ws.send by the last step, in order
    settledNow            \* resolve/reject invocations on call() promises by the last step

connVars   == <<socks, ws, scheme, authenticated, reconnectAttempts,
                maxReconnectAttempts, reconnectTimers>>
rpcVars    == <<requestId, pendingRequests, timers, calls>>
streamVars == <<sessionStreams, parentSessionKeys, defaultSessionKey,
                sessionKeyResolved, chunkCat>>
clientVars == <<socks, ws, scheme, authenticated, reconnectAttempts,
                maxReconnectAttempts, reconnectTimers, requestId, pendingRequests,
                timers, calls, sessionStreams, parentSessionKeys, defaultSessionKey,
                sessionKeyResolved>>
vars       == <<socks, ws, scheme, requestId, pendingRequests, timers, authenticated,
                reconnectAttempts, maxReconnectAttempts, reconnectTimers,
                sessionStreams, parentSessionKeys, defaultSessionKey,
                sessionKeyResolved, calls, chunkCat, op, emitted, sentNow, settledNow>>

----------------------------------------------------------------------------
(* Bounds of the model                                                      *)

MaxSockets == 2      \* WebSockets created in one run
MaxReqId   == 2      \* request ids allocated in one run
MaxText    == 4      \* length of a session's accumulated text
MaxFrag    == 3      \* length of the text of one incoming fragment

(* Program constants                                                        *)

DefaultMaxReconnectAttempts == 5

Methods  == {"m1", "m2"}
NoKey    == "null"
FallbackKey == "__default__"

Max(a, b) == IF a >= b THEN a ELSE b
Min(a, b) == IF a <= b THEN a ELSE b

----------------------------------------------------------------------------
(* Step records                                                             *)

\* name: the handler; id, ok, payload, err: the fields of a response frame (id also
\* the request id of call() and of a timer); result: what call() returned.
Op(name, id, ok, payload, err, result) ==
    [name |-> name, id |-> id, ok |-> ok, payload |-> payload, err |-> err,
     result |-> result]

NoOp == Op("init", 0, FALSE, "", "", "")

Ev(name, key, text) == [ev |-> name, key |-> key, text |-> text]

ReqFrame(id, method) == [type |-> "req", id |-> id, method |-> method]

----------------------------------------------------------------------------
(* Promises                                                                 *)

\* resolve()/reject() of a promise that is already settled has no effect.
SettleConnect(ss, s, how) ==
    IF s \in DOMAIN ss /\ ss[s].promise = "pending"
    THEN [ss EXCEPT ![s].promise = how]
    ELSE ss

\* pending.resolve(v) / pending.reject(e) / reject(e) of the promise of call id.
\* status: "pending", "resolved", "rejected" (by a response) or "timedout" (rejected
\* by the timer); nsettle counts the invocations of the promise's resolve and reject
\* functions.  The value of the settlement is recorded in settledNow.
SettleCall(cs, id, how) ==
    [cs EXCEPT ![id] = [@ EXCEPT !.status = IF @ = "pending" THEN how ELSE @,
                                  !.nsettle = @ + 1]]

Settlement(id, how, value) == [id |-> id, how |-> how, value |-> value]

TimeoutMessage(method) == "Request timeout: " \o method

----------------------------------------------------------------------------
(* Stream state reset                                                       *)

EmptyStreams == [k \in {} |-> 0]

\* resetStreamState(): the four assignments, as the values after the call
ResetStreamState ==
    /\ sessionStreams' = EmptyStreams
    /\ parentSessionKeys' = {}
    /\ defaultSessionKey' = NoKey
    /\ sessionKeyResolved' = FALSE
    /\ chunkCat' = EmptyStreams

----------------------------------------------------------------------------
Init ==
    /\ socks = <<>>
    /\ ws = 0
    /\ scheme = "ws"
    /\ requestId = 0
    /\ pendingRequests = {}
    /\ timers = {}
    /\ authenticated = FALSE
    /\ reconnectAttempts = 0
    /\ maxReconnectAttempts = DefaultMaxReconnectAttempts
    /\ reconnectTimers = 0
    /\ sessionStreams = EmptyStreams
    /\ parentSessionKeys = {}
    /\ defaultSessionKey = NoKey
    /\ sessionKeyResolved = FALSE
    /\ calls = [i \in {} |-> 0]
    /\ chunkCat = EmptyStreams
    /\ op = NoOp
    /\ emitted = <<>>
    /\ sentNow = <<>>
    /\ settledNow = <<>>

----------------------------------------------------------------------------
(* Connection management                                                    *)

\* A WebSocket made by connect().  auto: connect() was called by the reconnection
\* timer.
NewSocket(auto) ==
    [rs |-> "CONNECTING", attached |-> TRUE, promise |-> "pending", auto |-> auto]

\* connect(): a new WebSocket replaces this.ws; the four callbacks are attached.
ConnectBody(auto) ==
    /\ socks' = Append(socks, NewSocket(auto))
    /\ ws' = Len(socks) + 1

\* connect() called by the user of the client
Connect ==
    /\ ConnectBody(FALSE)
    /\ op'= Op("connect", 0, FALSE, "", "", "")
    /\ emitted' = <<>>
    /\ sentNow' = <<>>
    /\ settledNow' = <<>>
    /\ UNCHANGED <<scheme, authenticated, reconnectAttempts, maxReconnectAttempts,
                   reconnectTimers, rpcVars, streamVars>>

\* the setTimeout callback of attemptReconnect(): this.connect().catch(() => {})
ReconnectTimerFires ==
    /\ reconnectTimers > 0
    /\ reconnectTimers' = reconnectTimers - 1
    /\ ConnectBody(TRUE)
    /\ op' = Op("reconnectTimer", 0, FALSE, "", "", "")
    /\ emitted' = <<>>
    /\ sentNow' = <<>>
    /\ settledNow' = <<>>
    /\ UNCHANGED <<scheme, authenticated, reconnectAttempts, maxReconnectAttempts,
                   rpcVars, streamVars>>

\* SockOpen that calls performHandshake() as soon as the transport opens
SockOpen_SendsConnect(s) ==
    /\ s \in DOMAIN socks
    /\ socks[s].rs = "CONNECTING"
    /\ requestId < MaxReqId
    /\ requestId' = requestId + 1
    /\ socks' = [socks EXCEPT ![s].rs = "OPEN"]
    /\ reconnectAttempts' = IF socks[s].attached THEN 0 ELSE reconnectAttempts
    /\ op' = Op("onopen", 0, FALSE, "", "", "")
    /\ emitted' = <<>>
    /\ sentNow' = <<ReqFrame(requestId + 1, "connect")>>
    /\ settledNow' = <<>>
    /\ UNCHANGED <<ws, scheme, authenticated, maxReconnectAttempts, reconnectTimers,
                   pendingRequests, timers, calls, streamVars>>

\* ws.onopen
SockOpen(s) ==
    /\ s \in DOMAIN socks
    /\ socks[s].rs = "CONNECTING"
    /\ socks' = [socks EXCEPT ![s].rs = "OPEN"]
    /\ reconnectAttempts' = IF socks[s].attached THEN 0 ELSE reconnectAttempts
    /\ op' = Op("onopen", 0, FALSE, "", "", "")
    /\ emitted' = <<>>
    /\ sentNow' = <<>>
    /\ settledNow' = <<>>
    /\ UNCHANGED <<ws, scheme, authenticated, maxReconnectAttempts, reconnectTimers,
                   rpcVars, streamVars>>

\* attemptReconnect(): TRUE iff a reconnection timer is scheduled
WillReconnect == reconnectAttempts < maxReconnectAttempts

\* OnClose without resetStreamState()
OnClose_KeepsStreams(failed, s) ==
    /\ authenticated' = FALSE
    /\ UNCHANGED streamVars
    /\ reconnectAttempts' = IF WillReconnect THEN reconnectAttempts + 1
                            ELSE reconnectAttempts
    /\ reconnectTimers' = IF WillReconnect THEN reconnectTimers + 1
                          ELSE reconnectTimers

\* ws.onclose, run when socket s closes (after onerror when failed is TRUE)
OnClose(failed, s) ==
    /\ authenticated' = FALSE
    /\ ResetStreamState
    /\ reconnectAttempts' = IF WillReconnect THEN reconnectAttempts + 1
                            ELSE reconnectAttempts
    /\ reconnectTimers' = IF WillReconnect THEN reconnectTimers + 1
                          ELSE reconnectTimers

\* ws.onerror without the certificate branch
OnErrorEvent_AlwaysError(s) == Ev("error", "", <<>>)

\* ws.onerror: the event it emits; the socket is CLOSED when the event is dispatched
OnErrorEvent(s) ==
    IF scheme = "wss" /\ ws # 0 /\ (ws = s \/ socks[ws].rs = "CLOSED")
    THEN Ev("certError", "", <<>>)
    ELSE Ev("error", "", <<>>)

\* The transport of socket s closes: cleanly (failed = FALSE: close event only) or
\* after a failure (failed = TRUE: error event, then close event, in one task).
SockClose(s, failed) ==
    /\ s \in DOMAIN socks
    /\ socks[s].rs \in {"CONNECTING", "OPEN"}
    /\ failed \/ socks[s].rs = "OPEN"
    /\ op' = Op(IF failed THEN "onerror+onclose" ELSE "onclose", 0, FALSE, "", "", "")
    /\ sentNow' = <<>>
    /\ settledNow' = <<>>
    /\ IF socks[s].attached
       THEN /\ socks' = IF failed
                        THEN SettleConnect([socks EXCEPT ![s].rs = "CLOSED"], s, "rejected")
                        ELSE [socks EXCEPT ![s].rs = "CLOSED"]
            /\ OnClose(failed, s)
            /\ emitted' = (IF failed THEN <<OnErrorEvent(s)>> ELSE <<>>)
                          \o <<Ev("disconnected", "", <<>>)>>
            /\ UNCHANGED <<ws, scheme, maxReconnectAttempts, rpcVars>>
       ELSE /\ socks' = [socks EXCEPT ![s].rs = "CLOSED"]
            /\ emitted' = <<>>
            /\ UNCHANGED <<ws, scheme, authenticated, reconnectAttempts,
                           maxReconnectAttempts, reconnectTimers, rpcVars, streamVars>>

\* disconnect()
Disconnect ==
    /\ maxReconnectAttempts' = 0
    /\ socks' = IF ws # 0
                THEN [socks EXCEPT ![ws].attached = FALSE, ![ws].rs = "CLOSED"]
                ELSE socks
    /\ ws' = 0
    /\ authenticated' = FALSE
    /\ ResetStreamState
    /\ op' = Op("disconnect", 0, FALSE, "", "", "")
    /\ emitted' = <<>>
    /\ sentNow' = <<>>
    /\ settledNow' = <<>>
    /\ UNCHANGED <<scheme, reconnectAttempts, reconnectTimers, rpcVars>>

----------------------------------------------------------------------------
(* RPC: call(), its timeout, and handleMessage                              *)

NewCall(method) == [method |-> method, status |-> "pending", nsettle |-> 0]

\* the open-transport check of call()
TransportOpen == ws # 0 /\ socks[ws].rs = "OPEN"

\* Call with ++this.requestId executed before the open-transport check
Call_IdBeforeCheck(method) ==
    /\ emitted' = <<>>
    /\ settledNow' = <<>>
    /\ requestId < MaxReqId
    /\ requestId' = requestId + 1
    /\ IF ~TransportOpen
       THEN /\ op' = Op("call", 0, FALSE, "", "", "rejected: Not connected to OpenClaw")
            /\ sentNow' = <<>>
            /\ UNCHANGED <<pendingRequests, timers, calls>>
       ELSE /\ pendingRequests' = pendingRequests \cup {requestId + 1}
            /\ calls' = calls @@ ((requestId + 1) :> NewCall(method))
            /\ sentNow' = <<ReqFrame(requestId + 1, method)>>
            /\ timers' = timers \cup {requestId + 1}
            /\ op' = Op("call", requestId + 1, FALSE, "", "", "pending")
    /\ UNCHANGED <<connVars, streamVars>>

\* Call without the setTimeout that rejects the request after 30 s
Call_NoTimer(method) ==
    /\ emitted' = <<>>
    /\ settledNow' = <<>>
    /\ IF ~TransportOpen
       THEN /\ op' = Op("call", 0, FALSE, "", "", "rejected: Not connected to OpenClaw")
            /\ sentNow' = <<>>
            /\ UNCHANGED <<requestId, pendingRequests, timers, calls>>
       ELSE /\ requestId < MaxReqId
            /\ requestId' = requestId + 1
            /\ pendingRequests' = pendingRequests \cup {requestId + 1}
            /\ calls' = calls @@ ((requestId + 1) :> NewCall(method))
            /\ sentNow' = <<ReqFrame(requestId + 1, method)>>
            /\ UNCHANGED timers
            /\ op' = Op("call", requestId + 1, FALSE, "", "", "pending")
    /\ UNCHANGED <<connVars, streamVars>>

\* Call with a check of this.authenticated added to the open-transport check
Call_RequiresAuth(method) ==
    /\ emitted' = <<>>
    /\ settledNow' = <<>>
    /\ IF ~TransportOpen \/ ~authenticated
       THEN /\ op' = Op("call", 0, FALSE, "", "", "rejected: Not connected to OpenClaw")
            /\ sentNow' = <<>>
            /\ UNCHANGED <<requestId, pendingRequests, timers, calls>>
       ELSE /\ requestId < MaxReqId
            /\ requestId' = requestId + 1
            /\ pendingRequests' = pendingRequests \cup {requestId + 1}
            /\ calls' = calls @@ ((requestId + 1) :> NewCall(method))
            /\ sentNow' = <<ReqFrame(requestId + 1, method)>>
            /\ timers' = timers \cup {requestId + 1}
            /\ op' = Op("call", requestId + 1, FALSE, "", "", "pending")
    /\ UNCHANGED <<connVars, streamVars>>

\* call(method, params)
Call(method) ==
    /\ emitted' = <<>>
    /\ settledNow' = <<>>
    /\ IF ~TransportOpen
       THEN /\ op' = Op("call", 0, FALSE, "", "", "rejected: Not connected to OpenClaw")
            /\ sentNow' = <<>>
            /\ UNCHANGED <<requestId, pendingRequests, timers, calls>>
       ELSE /\ requestId < MaxReqId
            /\ requestId' = requestId + 1
            /\ pendingRequests' = pendingRequests \cup {requestId + 1}
            /\ calls' = calls @@ ((requestId + 1) :> NewCall(method))
            /\ sentNow' = <<ReqFrame(requestId + 1, method)>>
            /\ timers' = timers \cup {requestId + 1}
            /\ op' = Op("call", requestId + 1, FALSE, "", "", "pending")
    /\ UNCHANGED <<connVars, streamVars>>

\* Timeout without the pendingRequests.has(id) test
Timeout_NoPendingCheck(id) ==
    /\ id \in timers
    /\ \A j \in timers : id <= j
    /\ timers' = timers \ {id}
    /\ pendingRequests' = pendingRequests \ {id}
    /\ calls' = SettleCall(calls, id, "timedout")
    /\ settledNow' = <<Settlement(id, "rejected", TimeoutMessage(calls[id].method))>>
    /\ op' = Op("timeout", id, FALSE, "", "", "")
    /\ emitted' = <<>>
    /\ sentNow' = <<>>
    /\ UNCHANGED <<requestId, connVars, streamVars>>

\* Timeout without pendingRequests.delete(id)
Timeout_KeepsEntry(id) ==
    /\ id \in timers
    /\ \A j \in timers : id <= j
    /\ timers' = timers \ {id}
    /\ IF id \in pendingRequests
       THEN /\ calls' = SettleCall(calls, id, "timedout")
            /\ settledNow' = <<Settlement(id, "rejected", TimeoutMessage(calls[id].method))>>
       ELSE /\ settledNow' = <<>>
            /\ UNCHANGED calls
    /\ UNCHANGED pendingRequests
    /\ op' = Op("timeout", id, FALSE, "", "", "")
    /\ emitted' = <<>>
    /\ sentNow' = <<>>
    /\ UNCHANGED <<requestId, connVars, streamVars>>

\* The callback of call()'s setTimeout for request id.  All timers have the same
\* delay, so they fire in the order in which they were set.
Timeout(id) ==
    /\ id \in timers
    /\ \A j \in timers : id <= j
    /\ timers' = timers \ {id}
    /\ IF id \in pendingRequests
       THEN /\ pendingRequests' = pendingRequests \ {id}
            /\ calls' = SettleCall(calls, id, "timedout")
            /\ settledNow' = <<Settlement(id, "rejected", TimeoutMessage(calls[id].method))>>
       ELSE /\ settledNow' = <<>>
            /\ UNCHANGED <<pendingRequests, calls>>
    /\ op' = Op("timeout", id, FALSE, "", "", "")
    /\ emitted' = <<>>
    /\ sentNow' = <<>>
    /\ UNCHANGED <<requestId, connVars, streamVars>>

\* a socket whose onmessage callback can run
CanReceive(s) == s \in DOMAIN socks /\ socks[s].rs = "OPEN" /\ socks[s].attached

\* handleMessage, message.type === 'event', event 'connect.challenge':
\* performHandshake() sends on this.ws, which need not be the receiving socket s;
\* send() on a CONNECTING socket throws and the catch rejects s's connect promise,
\* send() on a closed socket discards the frame.
RecvChallenge(s) ==
    /\ CanReceive(s)
    /\ requestId < MaxReqId
    /\ requestId' = requestId + 1
    /\ sentNow' = IF ws # 0 /\ socks[ws].rs = "OPEN"
                  THEN <<ReqFrame(requestId + 1, "connect")>> ELSE <<>>
    /\ socks' = IF ws # 0 /\ socks[ws].rs = "CONNECTING"
                THEN SettleConnect(socks, s, "rejected") ELSE socks
    /\ op' = Op("challenge", requestId + 1, FALSE, "", "", "")
    /\ emitted' = <<>>
    /\ settledNow' = <<>>
    /\ UNCHANGED <<ws, scheme, authenticated, reconnectAttempts, maxReconnectAttempts,
                   reconnectTimers, pendingRequests, timers, calls, streamVars>>

\* handleMessage whose catch rejects the connect promise of the socket
RecvUnparsable_RejectsConnect(s) ==
    /\ CanReceive(s)
    /\ socks' = SettleConnect(socks, s, "rejected")
    /\ op' = Op("unparsable", 0, FALSE, "", "", "")
    /\ emitted' = <<>>
    /\ sentNow' = <<>>
    /\ settledNow' = <<>>
    /\ UNCHANGED <<ws, scheme, authenticated, reconnectAttempts, maxReconnectAttempts,
                   reconnectTimers, rpcVars, streamVars>>

\* handleMessage with data that JSON.parse rejects: the exception is caught by
\* the catch of handleMessage, whose body is empty
RecvUnparsable(s) ==
    /\ CanReceive(s)
    /\ op' = Op("unparsable", 0, FALSE, "", "", "")
    /\ emitted' = <<>>
    /\ sentNow' = <<>>
    /\ settledNow' = <<>>
    /\ UNCHANGED <<connVars, rpcVars, streamVars>>

ErrorMessage(err, default) == IF err = "" THEN default ELSE err

\* the hello-ok interception of handleMessage
IsHelloOk(ok, payload) == ~authenticated /\ ok /\ payload = "hello-ok"

\* RecvResponse that hands a response to the oldest pending request, whatever its id
RecvResponse_OldestPending(s, id, ok, payload, err) ==
    /\ CanReceive(s)
    /\ op' = Op("res", id, ok, payload, err, "")
    /\ sentNow' = <<>>
    /\ IF IsHelloOk(ok, payload)
       THEN /\ authenticated' = TRUE
            /\ emitted' = <<Ev("connected", "", <<>>)>>
            /\ socks' = SettleConnect(socks, s, "resolved")
            /\ settledNow' = <<>>
            /\ UNCHANGED <<pendingRequests, calls>>
       ELSE IF pendingRequests # {}
       THEN LET first == CHOOSE i \in pendingRequests : \A j \in pendingRequests : i <= j
            IN  /\ pendingRequests' = pendingRequests \ {first}
                /\ calls' = SettleCall(calls, first, IF ok THEN "resolved" ELSE "rejected")
                /\ settledNow' = IF ok THEN <<Settlement(first, "resolved", payload)>>
                                 ELSE <<Settlement(first, "rejected",
                                                   ErrorMessage(err, "Unknown error"))>>
                /\ emitted' = <<>>
                /\ UNCHANGED <<authenticated, socks>>
       ELSE /\ emitted' = <<>>
            /\ settledNow' = <<>>
            /\ UNCHANGED <<authenticated, socks, pendingRequests, calls>>
    /\ UNCHANGED <<ws, scheme, reconnectAttempts, maxReconnectAttempts, reconnectTimers,
                   requestId, timers, streamVars>>

\* what handleMessage does to the promise of connect() for a response frame:
\* "resolve" (resolve?.()), "reject: <message>" (reject?.(new Error(message))), or
\* "" when it invokes neither
HandshakeOutcome(id, ok, payload, err) ==
    IF IsHelloOk(ok, payload) THEN "resolve"
    ELSE IF id \notin pendingRequests /\ ~ok /\ ~authenticated
    THEN "reject: " \o ErrorMessage(err, "Handshake failed")
    ELSE ""

\* RecvResponse with the pending lookup before the hello-ok interception
RecvResponse_PendingFirst(s, id, ok, payload, err) ==
    /\ CanReceive(s)
    /\ op' = Op("res", id, ok, payload, err,
                IF id \in pendingRequests THEN "" ELSE HandshakeOutcome(id, ok, payload, err))
    /\ sentNow' = <<>>
    /\ IF id \in pendingRequests
       THEN /\ pendingRequests' = pendingRequests \ {id}
            /\ calls' = SettleCall(calls, id, IF ok THEN "resolved" ELSE "rejected")
            /\ settledNow' = IF ok THEN <<Settlement(id, "resolved", payload)>>
                             ELSE <<Settlement(id, "rejected",
                                               ErrorMessage(err, "Unknown error"))>>
            /\ emitted' = <<>>
            /\ UNCHANGED <<authenticated, socks>>
       ELSE IF IsHelloOk(ok, payload)
       THEN /\ authenticated' = TRUE
            /\ emitted' = <<Ev("connected", "", <<>>)>>
            /\ socks' = SettleConnect(socks, s, "resolved")
            /\ settledNow' = <<>>
            /\ UNCHANGED <<pendingRequests, calls>>
       ELSE IF ~ok /\ ~authenticated
       THEN /\ socks' = SettleConnect(socks, s, "rejected")
            /\ emitted' = <<>>
            /\ settledNow' = <<>>
            /\ UNCHANGED <<authenticated, pendingRequests, calls>>
       ELSE /\ emitted' = <<>>
            /\ settledNow' = <<>>
            /\ UNCHANGED <<authenticated, socks, pendingRequests, calls>>
    /\ UNCHANGED <<ws, scheme, reconnectAttempts, maxReconnectAttempts, reconnectTimers,
                   requestId, timers, streamVars>>

\* RecvResponse in which every failure response received before authentication
\* rejects the promise of connect(), also one whose id has a pending entry
RecvResponse_FailureRejectsConnect(s, id, ok, payload, err) ==
    /\ CanReceive(s)
    /\ op' = Op("res", id, ok, payload, err,
                IF IsHelloOk(ok, payload) THEN "resolve"
                ELSE IF ~ok /\ ~authenticated
                THEN "reject: " \o ErrorMessage(err, "Handshake failed")
                ELSE "")
    /\ sentNow' = <<>>
    /\ IF IsHelloOk(ok, payload)
       THEN /\ authenticated' = TRUE
            /\ emitted' = <<Ev("connected", "", <<>>)>>
            /\ socks' = SettleConnect(socks, s, "resolved")
            /\ settledNow' = <<>>
            /\ UNCHANGED <<pendingRequests, calls>>
       ELSE IF ~ok /\ ~authenticated
       THEN /\ socks' = SettleConnect(socks, s, "rejected")
            /\ emitted' = <<>>
            /\ settledNow' = <<>>
            /\ UNCHANGED <<authenticated, pendingRequests, calls>>
       ELSE IF id \in pendingRequests
       THEN /\ pendingRequests' = pendingRequests \ {id}
            /\ calls' = SettleCall(calls, id, IF ok THEN "resolved" ELSE "rejected")
            /\ settledNow' = IF ok THEN <<Settlement(id, "resolved", payload)>>
                             ELSE <<Settlement(id, "rejected",
                                               ErrorMessage(err, "Unknown error"))>>
            /\ emitted' = <<>>
            /\ UNCHANGED <<authenticated, socks>>
       ELSE /\ emitted' = <<>>
            /\ settledNow' = <<>>
            /\ UNCHANGED <<authenticated, socks, pendingRequests, calls>>
    /\ UNCHANGED <<ws, scheme, reconnectAttempts, maxReconnectAttempts, reconnectTimers,
                   requestId, timers, streamVars>>

\* handleMessage, message.type === 'res'
RecvResponse(s, id, ok, payload, err) ==
    /\ CanReceive(s)
    /\ op' = Op("res", id, ok, payload, err, HandshakeOutcome(id, ok, payload, err))
    /\ sentNow' = <<>>
    /\ IF IsHelloOk(ok, payload)
       THEN /\ authenticated' = TRUE
            /\ emitted' = <<Ev("connected", "", <<>>)>>
            /\ socks' = SettleConnect(socks, s, "resolved")
            /\ settledNow' = <<>>
            /\ UNCHANGED <<pendingRequests, calls>>
       ELSE IF id \in pendingRequests
       THEN /\ pendingRequests' = pendingRequests \ {id}
            /\ calls' = SettleCall(calls, id, IF ok THEN "resolved" ELSE "rejected")
            /\ settledNow' = IF ok THEN <<Settlement(id, "resolved", payload)>>
                             ELSE <<Settlement(id, "rejected",
                                               ErrorMessage(err, "Unknown error"))>>
            /\ emitted' = <<>>
            /\ UNCHANGED <<authenticated, socks>>
       ELSE IF ~ok /\ ~authenticated
       THEN /\ socks' = SettleConnect(socks, s, "rejected")
            /\ emitted' = <<>>
            /\ settledNow' = <<>>
            /\ UNCHANGED <<authenticated, pendingRequests, calls>>
       ELSE /\ emitted' = <<>>
            /\ settledNow' = <<>>
            /\ UNCHANGED <<authenticated, socks, pendingRequests, calls>>
    /\ UNCHANGED <<ws, scheme, reconnectAttempts, maxReconnectAttempts, reconnectTimers,
                   requestId, timers, streamVars>>

Payloads == {"hello-ok", "data"}
ErrTexts == {"", "boom"}

----------------------------------------------------------------------------
(* The client with its transport: connection, handshake and RPC.           *)
(* The application calls connect() only when no transport is alive and no  *)
(* reconnection is scheduled, and gives the request that gets id n the     *)
(* method MethodFor(n).                                                    *)

ClientIdle ==
    /\ reconnectTimers = 0
    /\ \A i \in DOMAIN socks : socks[i].rs = "CLOSED"

MethodFor(id) == IF id % 2 = 1 THEN "m1" ELSE "m2"

Next ==
    \/ (ClientIdle /\ Len(socks) < MaxSockets /\ Connect)
    \/ (Len(socks) < MaxSockets /\ ReconnectTimerFires)
    \/ Disconnect
    \/ \E s \in 1..MaxSockets : SockOpen(s)
    \/ \E s \in 1..MaxSockets, failed \in BOOLEAN : SockClose(s, failed)
    \/ Call(MethodFor(requestId + 1))
    \/ \E id \in 1..MaxReqId : Timeout(id)
    \/ \E s \in 1..MaxSockets : RecvChallenge(s)
    \/ \E s \in 1..MaxSockets, id \in 1..MaxReqId, p \in Payloads :
          RecvResponse(s, id, TRUE, p, "")
    \/ \E s \in 1..MaxSockets, id \in 1..MaxReqId, e \in ErrTexts :
          RecvResponse(s, id, FALSE, "", e)

Spec == Init /\ [][Next]_vars

----------------------------------------------------------------------------
(* Request correlator: claims C1 - C6                                       *)

\* C1: the promise of every call() that passed the open-transport check is settled
\* at most once: its resolve/reject functions are invoked at most once in total,
\* whatever the order of responses, duplicate responses, the timeout, closes and
\* reconnections; a promise is pending exactly as long as none was invoked.
C1_SettledAtMostOnce ==
    /\ Len(settledNow) <= 1
    /\ \A id \in DOMAIN calls :
          /\ calls[id].nsettle <= 1
          /\ (calls[id].status = "pending") <=> (calls[id].nsettle = 0)

\* a second response for an already resolved call arrives on a later connection
C1_Witness ==
    /\ op.name = "res"
    /\ op.id \in DOMAIN calls
    /\ calls[op.id].status = "resolved"
    /\ settledNow = <<>>
    /\ Len(socks) = 2
    /\ op.id \notin timers

\* C2: once the close of the transport (or disconnect()) has been handled, and
\* when a reconnection starts, the pending table is empty: every request that was
\* pending was failed and removed by the close handling.
C2_PendingClearedOnClose ==
    op.name \in {"onclose", "onerror+onclose", "disconnect", "reconnectTimer"}
        => pendingRequests = {}

\* C3: a call() made while there is no transport or the transport is not OPEN is
\* rejected at once, sends no frame, adds no pending entry, starts no timer and
\* consumes no request id.
C3_ClosedCallRejects ==
    [][(op'.name = "call" /\ ~TransportOpen)
          => /\ op'.result = "rejected: Not connected to OpenClaw"
             /\ sentNow' = <<>>
             /\ settledNow' = <<>>
             /\ UNCHANGED <<requestId, pendingRequests, timers, calls>>]_vars

\* a call was rejected while this.ws exists but is still CONNECTING
C3_Witness ==
    /\ op.name = "call"
    /\ op.result = "rejected: Not connected to OpenClaw"
    /\ ws # 0
    /\ socks[ws].rs = "CONNECTING"

\* C4 as stated: a call() made while the transport is open but the handshake is
\* not Authenticated fails before any request frame is sent.
C4_UnauthenticatedCallFails ==
    (op.name = "call" /\ TransportOpen /\ ~authenticated)
        => (op.result # "pending" /\ sentNow = <<>>)

\* C4 amended: call() does not look at the handshake state.  A call() made while
\* the transport is OPEN and the client is not authenticated is not failed: it
\* takes the next request id, adds the pending entry, sends the request frame and
\* starts the timer, as an authenticated call does.
C4_UnauthenticatedCallProceeds ==
    [][(op'.name = "call" /\ TransportOpen /\ ~authenticated)
          => /\ op'.result = "pending"
             /\ op'.id = requestId + 1
             /\ requestId' = requestId + 1
             /\ pendingRequests' = pendingRequests \cup {requestId + 1}
             /\ timers' = timers \cup {requestId + 1}
             /\ Len(sentNow') = 1
             /\ sentNow'[1].type = "req"
             /\ sentNow'[1].id = requestId + 1
             /\ calls'[requestId + 1].status = "pending"]_vars

\* a request is pending that was sent before the handshake completed
C4_Witness ==
    /\ op.name = "call"
    /\ op.result = "pending"
    /\ ~authenticated
    /\ op.id \in pendingRequests
    /\ Len(sentNow) = 1

\* C5: when the timer of a call fires while its entry is still pending, the entry
\* is removed and the promise rejected with "Request timeout: <method>"; a response
\* with that id that arrives later while authenticated changes no client state,
\* settles nothing, emits nothing and sends nothing.
C5_TimeoutThenLateResponseDropped ==
    [][/\ (op'.name = "timeout" /\ op'.id \in pendingRequests)
            => /\ op'.id \notin pendingRequests'
               /\ calls'[op'.id].status = "timedout"
               /\ settledNow' = <<[id |-> op'.id, how |-> "rejected",
                                   value |-> "Request timeout: " \o calls[op'.id].method]>>
       /\ (/\ op'.name = "res"
           /\ authenticated
           /\ op'.id \in DOMAIN calls
           /\ calls[op'.id].status = "timedout")
            => /\ UNCHANGED clientVars
               /\ emitted' = <<>>
               /\ settledNow' = <<>>
               /\ sentNow' = <<>>]_vars

\* a response arrived, while authenticated, for a call that had timed out
C5_Witness ==
    /\ op.name = "res"
    /\ authenticated
    /\ op.id \in DOMAIN calls
    /\ calls[op.id].status = "timedout"
    /\ op.ok

\* C6: responses are matched by id only.  A response or a timeout for one id leaves
\* the entry, the timer and the promise of every other call as they were, and a
\* response for a pending id that is not the handshake's hello-ok settles that call
\* with the response's own payload (or error message).
C6_MatchedByIdOnly ==
    [][/\ (op'.name \in {"res", "timeout"})
            => /\ \A j \in DOMAIN calls :
                     j # op'.id => /\ calls'[j] = calls[j]
                                   /\ (j \in pendingRequests') <=> (j \in pendingRequests)
                                   /\ (j \in timers') <=> (j \in timers)
               /\ \A i \in 1..Len(settledNow') : settledNow'[i].id = op'.id
       /\ (/\ op'.name = "res"
           /\ op'.id \in pendingRequests
           /\ ~(~authenticated /\ op'.ok /\ op'.payload = "hello-ok"))
            => /\ op'.id \notin pendingRequests'
               /\ settledNow' =
                    <<[id |-> op'.id,
                       how |-> IF op'.ok THEN "resolved" ELSE "rejected",
                       value |-> IF op'.ok THEN op'.payload
                                 ELSE IF op'.err = "" THEN "Unknown error"
                                 ELSE op'.err]>>]_vars

\* call 1 timed out, and the response for call 2 then resolved call 2
C6_Witness ==
    /\ op.name = "res"
    /\ op.id = 2
    /\ op.ok
    /\ 1 \in DOMAIN calls
    /\ 2 \in DOMAIN calls
    /\ calls[1].status = "timedout"
    /\ calls[2].status = "resolved"
    /\ settledNow = <<[id |-> 2, how |-> "resolved", value |-> op.payload]>>

----------------------------------------------------------------------------
(* Text: a sequence of one-character strings.  The two-letter text "OK"     *)
(* stands for a heartbeat sentinel ('HEARTBEAT_OK', 'HEARTBEAT.MD').        *)

StartsWith(str, prefix) ==
    Len(prefix) <= Len(str) /\ SubSeq(str, 1, Len(prefix)) = prefix

EndsWith(str, suffix) ==
    Len(suffix) <= Len(str) /\ SubSeq(str, Len(str) - Len(suffix) + 1, Len(str)) = suffix

\* str.slice(i)
SliceFrom(str, i) == SubSeq(str, i + 1, Len(str))

\* str.slice(0, i)
SliceTo(str, i) == SubSeq(str, 1, Min(i, Len(str)))

Separator == <<"\n", "\n">>

\* '❤️': two UTF-16 code units
Placeholder == <<"U+2764", "U+FE0F">>

Sentinel == <<"O", "K">>

\* text.toUpperCase(), on the letters of the sentinel
toUpperCase(text) ==
    [i \in 1..Len(text) |-> IF text[i] = "o" THEN "O"
                            ELSE IF text[i] = "k" THEN "K" ELSE text[i]]

\* isHeartbeatContent(text): text.toUpperCase().includes(sentinel)
isHeartbeatContent(text) ==
    \E i \in 1..(Len(text) - Len(Sentinel) + 1) :
        SubSeq(toUpperCase(text), i, i + Len(Sentinel) - 1) = Sentinel

\* isHeartbeatContent(t) ? '❤️' : t
SubstituteHeartbeat(text) == IF isHeartbeatContent(text) THEN Placeholder ELSE text

----------------------------------------------------------------------------
(* Per-session stream state                                                 *)

NoRun == "null"

createSessionStream ==
    [source |-> "null", text |-> <<>>, mode |-> "null", blockOffset |-> 0,
     started |-> FALSE, runId |-> NoRun]

\* getStream(sessionKey): the state, created when absent
getStream(sk) ==
    IF sk \in DOMAIN sessionStreams THEN sessionStreams[sk] ELSE createSessionStream

\* resolveEventSessionKey(eventSessionKey); NoKey is an absent or empty key
resolveEventSessionKey(key) ==
    IF key # NoKey THEN key
    ELSE IF defaultSessionKey # NoKey THEN defaultSessionKey
    ELSE FallbackKey

\* sessionStreams.set(sk, ss)
PutStream(streams, sk, ss) ==
    [k \in DOMAIN streams \cup {sk} |-> IF k = sk THEN ss ELSE streams[k]]

\* sessionStreams.clear() in the place of sessionStreams.delete(sk)
DeleteStream_ClearsAll(streams, sk) == [k \in {} |-> streams[k]]

\* sessionStreams.delete(sk)
DeleteStream(streams, sk) == [k \in DOMAIN streams \ {sk} |-> streams[k]]

\* no overlap loop: the fragment is appended in full
OverlapScan_AppendsAll(previous, incoming, i) == previous \o incoming

\* the overlap loop of mergeIncoming: for (i = maxOverlap; i > 0; i--)
RECURSIVE OverlapScan(_, _, _)
OverlapScan(previous, incoming, i) ==
    IF i <= 0 THEN previous \o incoming
    ELSE IF EndsWith(previous, SubSeq(incoming, 1, i))
    THEN previous \o SliceFrom(incoming, i)
    ELSE OverlapScan(previous, incoming, i - 1)

\* mergeIncoming that takes a cumulative fragment for an increment and appends it
mergeIncoming_CumulativeAsIncrement(ss, incoming, modeHint) ==
    LET previous == ss.text
        keep(t) == [text |-> t, blockOffset |-> ss.blockOffset]
    IN  IF modeHint = "cumulative" THEN keep(previous \o incoming)
        ELSE IF previous # <<>> /\ StartsWith(incoming, previous) THEN keep(incoming)
             ELSE IF previous # <<>> /\ EndsWith(previous, incoming) THEN keep(previous)
             ELSE IF previous # <<>>
             THEN keep(OverlapScan(previous, incoming, Min(Len(previous), Len(incoming))))
             ELSE keep(previous \o incoming)

\* mergeIncoming that leaves ss.blockOffset alone when a new content block starts
mergeIncoming_KeepsBlockOffset(ss, incoming, modeHint) ==
    LET previous == ss.text
        keep(t) == [text |-> t, blockOffset |-> ss.blockOffset]
    IN  IF modeHint = "cumulative"
        THEN IF previous = <<>> THEN keep(incoming)
             ELSE IF incoming = previous THEN keep(previous)
             ELSE IF StartsWith(incoming, previous) THEN keep(incoming)
             ELSE LET currentBlock == SliceFrom(previous, ss.blockOffset)
                  IN  IF currentBlock # <<>> /\ StartsWith(incoming, currentBlock)
                      THEN keep(SliceTo(previous, ss.blockOffset) \o incoming)
                      ELSE keep(previous \o Separator \o incoming)
        ELSE IF previous # <<>> /\ StartsWith(incoming, previous) THEN keep(incoming)
             ELSE IF previous # <<>> /\ EndsWith(previous, incoming) THEN keep(previous)
             ELSE IF previous # <<>>
             THEN keep(OverlapScan(previous, incoming, Min(Len(previous), Len(incoming))))
             ELSE keep(previous \o incoming)

\* mergeIncoming(ss, incoming, modeHint): the returned text and ss.blockOffset after
mergeIncoming(ss, incoming, modeHint) ==
    LET previous == ss.text
        keep(t) == [text |-> t, blockOffset |-> ss.blockOffset]
    IN  IF modeHint = "cumulative"
        THEN IF previous = <<>> THEN keep(incoming)
             ELSE IF incoming = previous THEN keep(previous)
             ELSE IF StartsWith(incoming, previous) THEN keep(incoming)
             ELSE LET currentBlock == SliceFrom(previous, ss.blockOffset)
                  IN  IF currentBlock # <<>> /\ StartsWith(incoming, currentBlock)
                      THEN keep(SliceTo(previous, ss.blockOffset) \o incoming)
                      ELSE [text |-> previous \o Separator \o incoming,
                            blockOffset |-> Len(previous) + Len(Separator)]
        ELSE IF previous # <<>> /\ StartsWith(incoming, previous) THEN keep(incoming)
             ELSE IF previous # <<>> /\ EndsWith(previous, incoming) THEN keep(previous)
             ELSE IF previous # <<>>
             THEN keep(OverlapScan(previous, incoming, Min(Len(previous), Len(incoming))))
             ELSE keep(previous \o incoming)

\* applyStreamText that emits the whole text, not the appended part, when the
\* text is extended
applyStreamText_ResendsAll(previous, nextText) ==
    IF nextText = <<>> THEN [text |-> previous, chunks |-> <<>>]
    ELSE IF nextText = previous THEN [text |-> previous, chunks |-> <<>>]
    ELSE IF previous = <<>> THEN [text |-> nextText, chunks |-> <<nextText>>]
    ELSE [text |-> nextText, chunks |-> <<nextText>>]

\* applyStreamText(ss, nextText, sessionKey): ss.text after, and the texts of the
\* streamChunk events it emits
applyStreamText(previous, nextText) ==
    IF nextText = <<>> THEN [text |-> previous, chunks |-> <<>>]
    ELSE IF nextText = previous THEN [text |-> previous, chunks |-> <<>>]
    ELSE IF previous = <<>> THEN [text |-> nextText, chunks |-> <<nextText>>]
    ELSE IF StartsWith(nextText, previous)
    THEN LET append == SliceFrom(nextText, Len(previous))
         IN  [text |-> nextText,
              chunks |-> IF append # <<>> THEN <<append>> ELSE <<>>]
    ELSE [text |-> previous \o Separator \o nextText,
          chunks |-> <<Separator \o nextText>>]

\* maybeEmitSessionKey without parentSessionKeys.add(sessionKey)
maybeEmitSessionKey_KeepsParents(sk) ==
    LET same == [resolved |-> sessionKeyResolved, parents |-> parentSessionKeys,
                 evs |-> <<>>]
    IN  IF sessionKeyResolved THEN same
        ELSE IF defaultSessionKey = NoKey THEN same
        ELSE IF sk \in parentSessionKeys /\ sk # defaultSessionKey THEN same
        ELSE IF sk = defaultSessionKey
        THEN [resolved |-> TRUE, parents |-> parentSessionKeys, evs |-> <<>>]
        ELSE [resolved |-> TRUE, parents |-> parentSessionKeys,
              evs |-> <<Ev("streamSessionKey", sk, <<>>)>>]

\* maybeEmitSessionKey(runId, sessionKey): sessionKeyResolved and parentSessionKeys
\* after, and the events emitted
maybeEmitSessionKey(sk) ==
    LET same == [resolved |-> sessionKeyResolved, parents |-> parentSessionKeys,
                 evs |-> <<>>]
    IN  IF sessionKeyResolved THEN same
        ELSE IF defaultSessionKey = NoKey THEN same
        ELSE IF sk \in parentSessionKeys /\ sk # defaultSessionKey THEN same
        ELSE IF sk = defaultSessionKey
        THEN [resolved |-> TRUE, parents |-> parentSessionKeys, evs |-> <<>>]
        ELSE [resolved |-> TRUE, parents |-> parentSessionKeys \cup {sk},
              evs |-> <<Ev("streamSessionKey", sk, <<>>)>>]

\* ensureStream that emits streamStart whether or not the stream is started
ensureStream_AlwaysStarts(ss, source, modeHint, runId) ==
    LET ss1 == IF runId # NoRun /\ ss.runId = NoRun THEN [ss EXCEPT !.runId = runId]
               ELSE ss
        ss2 == IF ss1.source = "null" THEN [ss1 EXCEPT !.source = source] ELSE ss1
        ss3 == IF ss2.mode = "null" THEN [ss2 EXCEPT !.mode = modeHint] ELSE ss2
    IN  IF ss2.source # source THEN [ss |-> ss2, start |-> FALSE]
        ELSE [ss |-> [ss3 EXCEPT !.started = TRUE], start |-> TRUE]

\* ensureStream(ss, source, modeHint, runId, sessionKey), without its call of
\* maybeEmitSessionKey: ss after, and whether streamStart is emitted
ensureStream(ss, source, modeHint, runId) ==
    LET ss1 == IF runId # NoRun /\ ss.runId = NoRun THEN [ss EXCEPT !.runId = runId]
               ELSE ss
        ss2 == IF ss1.source = "null" THEN [ss1 EXCEPT !.source = source] ELSE ss1
        ss3 == IF ss2.mode = "null" THEN [ss2 EXCEPT !.mode = modeHint] ELSE ss2
    IN  IF ss2.source # source THEN [ss |-> ss2, start |-> FALSE]
        ELSE [ss |-> [ss3 EXCEPT !.started = TRUE], start |-> ~ss3.started]

\* the subagent detection at the head of handleNotification
subagentDetection(key) ==
    IF parentSessionKeys # {} /\ key # NoKey /\ key \notin parentSessionKeys
    THEN <<Ev("subagentDetected", key, <<>>)>>
    ELSE <<>>

RECURSIVE SumLen(_, _)
SumLen(streams, keys) ==
    IF keys = {} THEN 0
    ELSE LET k == CHOOSE x \in keys : TRUE
         IN  Len(streams[k].text) + SumLen(streams, keys \ {k})

\* the accumulated text held by all session streams together
TotalText(streams) == SumLen(streams, DOMAIN streams)

----------------------------------------------------------------------------
(* handleNotification                                                       *)

\* the event that the last step handled: the event's sessionKey and runId, the
\* merge a fragment was given to ("cumulative", "delta" or "" for none), its text,
\* and whether the step before handled an event with the same name, key, merge
\* and text
SOp(name, key, runId, shape, text) ==
    [name |-> name, key |-> key, runId |-> runId, shape |-> shape, text |-> text,
     again |-> /\ op.name = name
               /\ op.key = key /\ op.shape = shape /\ op.text = text]

ChunkEvents(sk, chunks) == [i \in 1..Len(chunks) |-> Ev("streamChunk", sk, chunks[i])]

RECURSIVE Concat(_)
Concat(seqs) == IF seqs = <<>> THEN <<>> ELSE Head(seqs) \o Concat(Tail(seqs))

\* the chunk history of the stream at sk, extended by the chunks just emitted
PutChunks(cat, sk, chunks) ==
    [k \in DOMAIN cat \cup {sk} |->
        IF k = sk THEN (IF sk \in DOMAIN cat THEN cat[sk] ELSE <<>>) \o Concat(chunks)
        ELSE cat[k]]

\* the handlers that on() registered for an event, in the order of registration
\* (the iteration order of the Set)
Handlers == <<"h1", "h2", "h3">>

RECURSIVE emit_NoCatch(_, _)
\* emit without the try/catch around the handler call: the first handler that
\* throws ends the forEach and the exception leaves emit
emit_NoCatch(handlers, throwing) ==
    IF handlers = <<>> THEN [invoked |-> <<>>, propagated |-> FALSE]
    ELSE IF Head(handlers) \in throwing
    THEN [invoked |-> <<Head(handlers)>>, propagated |-> TRUE]
    ELSE LET rest == emit_NoCatch(Tail(handlers), throwing)
         IN  [invoked |-> <<Head(handlers)>> \o rest.invoked,
              propagated |-> rest.propagated]

RECURSIVE emit(_, _)
\* emit(event, ...args) over the handlers of the event, of which those in
\* throwing throw: the handlers invoked, in order, and whether an exception
\* leaves emit.  Each call is in a try with an empty catch.
emit(handlers, throwing) ==
    IF handlers = <<>> THEN [invoked |-> <<>>, propagated |-> FALSE]
    ELSE LET rest == emit(Tail(handlers), throwing)
         IN  [invoked |-> <<Head(handlers)>> \o rest.invoked,
              propagated |-> rest.propagated]

\* the sets of handlers that may throw during one dispatch
Faults == SUBSET {Handlers[i] : i \in 1..Len(Handlers)}

\* emit returns to its caller whichever handlers throw
emitReturns == \A throwing \in Faults : ~emit(Handlers, throwing).propagated

\* A text fragment of channel source ('chat' delta, or 'agent' assistant) for the
\* event key: ensureStream with modeHint, the ownership test, then, when raw is
\* not empty, mergeIncoming under mergeMode and applyStreamText.  An exception
\* that left emit would leave handleNotification at that point and be swallowed
\* by the catch of handleMessage.
StreamFragment(key, runId, source, modeHint, raw, mergeMode) ==
    LET sk      == resolveEventSessionKey(key)
        sub     == subagentDetection(key)
        ens     == ensureStream(getStream(sk), source, modeHint, runId)
        me      == maybeEmitSessionKey(sk)
        owned   == ens.ss.source = source
        merged  == mergeIncoming(ens.ss, SubstituteHeartbeat(raw), mergeMode)
        applied == applyStreamText(ens.ss.text, merged.text)
        \* the statements after emit('streamStart') run when emit returns
        merges  == owned /\ raw # <<>> /\ (ens.start => emitReturns)
        ssAfter == IF merges
                   THEN [ens.ss EXCEPT !.text = applied.text,
                                       !.blockOffset = merged.blockOffset]
                   ELSE ens.ss
        chunks  == IF merges THEN applied.chunks ELSE <<>>
    IN  /\ sessionStreams' = PutStream(sessionStreams, sk, ssAfter)
        /\ TotalText(sessionStreams') <= MaxText
        /\ chunkCat' = PutChunks(chunkCat, sk, chunks)
        /\ parentSessionKeys' = me.parents
        /\ sessionKeyResolved' = me.resolved
        /\ emitted' = sub \o me.evs
                      \o (IF ens.start THEN <<Ev("streamStart", sk, <<>>)>> ELSE <<>>)
                      \o ChunkEvents(sk, chunks)
        /\ UNCHANGED defaultSessionKey

\* event 'chat', payload.state === 'delta': raw is the text extracted from
\* payload.message.content, or from payload.delta when there is no content
ChatDelta(s, key, runId, raw) ==
    /\ CanReceive(s)
    /\ StreamFragment(key, runId, "chat", "cumulative", raw, "cumulative")
    /\ op' = SOp("chat.delta", key, runId, IF raw # <<>> THEN "cumulative" ELSE "", raw)
    /\ sentNow' = <<>>
    /\ settledNow' = <<>>
    /\ UNCHANGED <<connVars, rpcVars>>

\* event 'agent', payload.stream === 'assistant': hasText is typeof data.text ===
\* 'string', text the stripped data.text, delta the stripped data.delta
AgentAssistant(s, key, runId, hasText, text, delta) ==
    /\ CanReceive(s)
    /\ StreamFragment(key, runId, "agent", IF hasText THEN "cumulative" ELSE "delta",
                      IF text # <<>> THEN text ELSE delta,
                      IF text # <<>> THEN "cumulative" ELSE "delta")
    /\ op' = SOp("agent.assistant", key, runId,
                 IF text # <<>> THEN "cumulative" ELSE IF delta # <<>> THEN "delta" ELSE "",
                 IF text # <<>> THEN text ELSE delta)
    /\ sentNow' = <<>>
    /\ settledNow' = <<>>
    /\ UNCHANGED <<connVars, rpcVars>>

\* the events of a chat final after the session-key resolution: 'message' when
\* the extracted text is not empty, then streamEnd when ss.started
chatFinalEvents(ss, key, text) ==
    (IF text # <<>> THEN <<Ev("message", key, SubstituteHeartbeat(text))>> ELSE <<>>)
    \o (IF ss.started THEN <<Ev("streamEnd", key, <<>>)>> ELSE <<>>)

\* ChatFinal without resetSessionStream(sk)
ChatFinal_KeepsState(s, key, runId, text) ==
    LET sk  == resolveEventSessionKey(key)
        sub == subagentDetection(key)
        ss  == getStream(sk)
        me  == maybeEmitSessionKey(sk)
    IN  /\ CanReceive(s)
        /\ sessionStreams' = PutStream(sessionStreams, sk, ss)
        /\ chunkCat' = PutChunks(chunkCat, sk, <<>>)
        /\ parentSessionKeys' = me.parents
        /\ sessionKeyResolved' = me.resolved
        /\ emitted' = sub \o me.evs \o chatFinalEvents(ss, key, text)
        /\ op' = SOp("chat.final", key, runId, "", text)
        /\ sentNow' = <<>>
        /\ settledNow' = <<>>
        /\ UNCHANGED <<defaultSessionKey, connVars, rpcVars>>

\* event 'chat', payload.state === 'final': text is the text extracted from
\* payload.message.content, empty when there is no message
ChatFinal(s, key, runId, text) ==
    LET sk  == resolveEventSessionKey(key)
        sub == subagentDetection(key)
        ss  == getStream(sk)
        me  == maybeEmitSessionKey(sk)
    IN  /\ CanReceive(s)
        /\ sessionStreams' = DeleteStream(sessionStreams, sk)
        /\ chunkCat' = DeleteStream(chunkCat, sk)
        /\ parentSessionKeys' = me.parents
        /\ sessionKeyResolved' = me.resolved
        /\ emitted' = sub \o me.evs \o chatFinalEvents(ss, key, text)
        /\ op' = SOp("chat.final", key, runId, "", text)
        /\ sentNow' = <<>>
        /\ settledNow' = <<>>
        /\ UNCHANGED <<defaultSessionKey, connVars, rpcVars>>

\* event 'agent', payload.stream === 'tool'
AgentTool(s, key, runId) ==
    LET sk  == resolveEventSessionKey(key)
        sub == subagentDetection(key)
        ss  == getStream(sk)
        me  == maybeEmitSessionKey(sk)
    IN  /\ CanReceive(s)
        /\ sessionStreams' = PutStream(sessionStreams, sk, [ss EXCEPT !.started = TRUE])
        /\ chunkCat' = PutChunks(chunkCat, sk, <<>>)
        /\ parentSessionKeys' = me.parents
        /\ sessionKeyResolved' = me.resolved
        /\ emitted' = sub \o me.evs
                      \o (IF ~ss.started THEN <<Ev("streamStart", sk, <<>>)>> ELSE <<>>)
                      \o <<Ev("toolCall", key, <<>>)>>
        /\ op' = SOp("agent.tool", key, runId, "", <<>>)
        /\ sentNow' = <<>>
        /\ settledNow' = <<>>
        /\ UNCHANGED <<defaultSessionKey, connVars, rpcVars>>

\* lifecycleEnds without the test of the owning channel
lifecycleEnds_AnyOwner(ss, ending) == ending /\ ss.started

\* the test of a lifecycle event that ends the stream of ss
lifecycleEnds(ss, ending) == ending /\ ss.source = "agent" /\ ss.started

\* event 'agent', payload.stream === 'lifecycle'; ending: phase is 'end' or 'error'
\* or state is 'complete' or 'error'
AgentLifecycle(s, key, runId, ending) ==
    LET sk   == resolveEventSessionKey(key)
        sub  == subagentDetection(key)
        ss   == getStream(sk)
        me   == maybeEmitSessionKey(sk)
        ends == lifecycleEnds(ss, ending)
    IN  /\ CanReceive(s)
        /\ sessionStreams' = PutStream(sessionStreams, sk,
                                       IF ends THEN [ss EXCEPT !.started = FALSE] ELSE ss)
        /\ chunkCat' = PutChunks(chunkCat, sk, <<>>)
        /\ parentSessionKeys' = me.parents
        /\ sessionKeyResolved' = me.resolved
        /\ emitted' = sub \o me.evs
                      \o (IF ends THEN <<Ev("streamEnd", key, <<>>)>> ELSE <<>>)
        /\ op' = SOp(IF ending THEN "agent.lifecycle.end" ELSE "agent.lifecycle", key,
                     runId, "", <<>>)
        /\ sentNow' = <<>>
        /\ settledNow' = <<>>
        /\ UNCHANGED <<defaultSessionKey, connVars, rpcVars>>

\* PassThrough that calls getStream(sk) first, as the chat and agent cases do
PassThrough_CreatesStream(s, name, key) ==
    /\ CanReceive(s)
    /\ sessionStreams' = PutStream(sessionStreams, resolveEventSessionKey(key),
                                   getStream(resolveEventSessionKey(key)))
    /\ emitted' = subagentDetection(key)
                  \o <<Ev(IF name = "presence" THEN "agentStatus" ELSE name, key, <<>>)>>
    /\ op' = SOp(name, key, NoRun, "", <<>>)
    /\ sentNow' = <<>>
    /\ settledNow' = <<>>
    /\ UNCHANGED <<connVars, rpcVars, parentSessionKeys, defaultSessionKey,
                   sessionKeyResolved, chunkCat>>

\* events 'presence' and any other name: re-emitted, no state touched
PassThrough(s, name, key) ==
    /\ CanReceive(s)
    /\ emitted' = subagentDetection(key)
                  \o <<Ev(IF name = "presence" THEN "agentStatus" ELSE name, key, <<>>)>>
    /\ op' = SOp(name, key, NoRun, "", <<>>)
    /\ sentNow' = <<>>
    /\ settledNow' = <<>>
    /\ UNCHANGED <<connVars, rpcVars, streamVars>>

\* setPrimarySessionKey whose else branch also clears parentSessionKeys
setPrimarySessionKey_NullClearsParents(key) ==
    /\ IF key # NoKey
       THEN /\ parentSessionKeys' = parentSessionKeys \cup {key}
            /\ defaultSessionKey' = key
            /\ sessionKeyResolved' = FALSE
       ELSE /\ defaultSessionKey' = NoKey
            /\ parentSessionKeys' = {}
            /\ UNCHANGED sessionKeyResolved
    /\ op' = SOp("setPrimarySessionKey", key, NoRun, "", <<>>)
    /\ emitted' = <<>>
    /\ sentNow' = <<>>
    /\ settledNow' = <<>>
    /\ UNCHANGED <<connVars, rpcVars, sessionStreams, chunkCat>>

\* setPrimarySessionKey(key)
setPrimarySessionKey(key) ==
    /\ IF key # NoKey
       THEN /\ parentSessionKeys' = parentSessionKeys \cup {key}
            /\ defaultSessionKey' = key
            /\ sessionKeyResolved' = FALSE
       ELSE /\ defaultSessionKey' = NoKey
            /\ UNCHANGED <<parentSessionKeys, sessionKeyResolved>>
    /\ op' = SOp("setPrimarySessionKey", key, NoRun, "", <<>>)
    /\ emitted' = <<>>
    /\ sentNow' = <<>>
    /\ settledNow' = <<>>
    /\ UNCHANGED <<connVars, rpcVars, sessionStreams, chunkCat>>

----------------------------------------------------------------------------
(* The stream reassembler behind its transport, one session: the events     *)
(* carry no session key and no run id, so every fragment is attributed to   *)
(* the fallback key.  One connection: the application connects once and    *)
(* does not call disconnect; the transport may close, which resets the      *)
(* stream state, and the run ends before the reconnection timer fires.      *)

Chars == {"a", "b"}

\* a fragment that contains a heartbeat sentinel
HeartbeatFrag == <<"O", "K">>

\* the texts of length 1..MaxFrag over Chars, and the heartbeat
Frags == UNION {[1..n -> Chars] : n \in 1..MaxFrag} \cup {HeartbeatFrag}

\* the texts of a final message: none, two texts and the heartbeat
FinalTexts == {<<>>, <<"a">>, <<"a", "b">>, HeartbeatFrag}

NextStream ==
    \/ (ClientIdle /\ Len(socks) < MaxSockets /\ Connect)
    \/ \E s \in 1..MaxSockets : SockOpen(s)
    \/ \E s \in 1..MaxSockets : SockClose(s, FALSE)
    \/ \E s \in 1..MaxSockets, t \in Frags \cup {<<>>} : ChatDelta(s, NoKey, NoRun, t)
    \/ \E s \in 1..MaxSockets, t \in Frags :
          AgentAssistant(s, NoKey, NoRun, TRUE, t, <<>>)
    \/ \E s \in 1..MaxSockets, t \in Frags \cup {<<>>} :
          AgentAssistant(s, NoKey, NoRun, FALSE, <<>>, t)
    \/ \E s \in 1..MaxSockets, t \in Frags :
          AgentAssistant(s, NoKey, NoRun, TRUE, <<>>, t)
    \/ \E s \in 1..MaxSockets, t \in FinalTexts : ChatFinal(s, NoKey, NoRun, t)
    \/ \E s \in 1..MaxSockets : AgentTool(s, NoKey, NoRun)
    \/ \E s \in 1..MaxSockets : AgentLifecycle(s, NoKey, NoRun, TRUE)

SpecStream == Init /\ [][NextStream]_vars

----------------------------------------------------------------------------
(* The reassembler with session keys.  Events carry the session key "A"     *)
(* and the run id "r1" or none; the application names "A" or "B"            *)
(* its primary session, or none.  Every fragment has the text "a".          *)

EventKeys == {"A"}
RunIds    == {NoRun, "r1"}
UnitFrags == {<<"a">>}

NextSessions ==
    \/ (ClientIdle /\ Len(socks) < MaxSockets /\ Connect)
    \/ (Len(socks) < MaxSockets /\ ReconnectTimerFires)
    \/ Disconnect
    \/ \E s \in 1..MaxSockets : SockOpen(s)
    \/ \E s \in 1..MaxSockets : SockClose(s, FALSE)
    \/ \E k \in {NoKey, "A", "B"} : setPrimarySessionKey(k)
    \/ \E s \in 1..MaxSockets, k \in EventKeys, r \in RunIds, t \in UnitFrags \cup {<<>>} :
          ChatDelta(s, k, r, t)
    \/ \E s \in 1..MaxSockets, k \in EventKeys, r \in RunIds, t \in UnitFrags :
          AgentAssistant(s, k, r, TRUE, t, <<>>)
    \/ \E s \in 1..MaxSockets, k \in EventKeys, r \in RunIds, t \in UnitFrags \cup {<<>>} :
          AgentAssistant(s, k, r, FALSE, <<>>, t)
    \/ \E s \in 1..MaxSockets, k \in EventKeys, r \in RunIds, t \in UnitFrags \cup {<<>>} :
          ChatFinal(s, k, r, t)
    \/ \E s \in 1..MaxSockets, k \in EventKeys, r \in RunIds : AgentTool(s, k, r)
    \/ \E s \in 1..MaxSockets, k \in EventKeys, r \in RunIds, e \in BOOLEAN :
          AgentLifecycle(s, k, r, e)
    \/ \E s \in 1..MaxSockets, k \in EventKeys, n \in {"presence", "custom"} :
          PassThrough(s, n, k)

SpecSessions == Init /\ [][NextSessions]_vars

----------------------------------------------------------------------------
(* What a step of the reassembler emitted and fed                            *)

IsChunk(e) == e.ev = "streamChunk"

\* the texts of the streamChunk events among evs, in order
ChunkTexts(evs) ==
    LET cs == SelectSeq(evs, IsChunk) IN [i \in 1..Len(cs) |-> cs[i].text]

HasEvent(evs, name) == \E i \in 1..Len(evs) : evs[i].ev = name

FragmentOps == {"chat.delta", "agent.assistant"}

\* the channel of a fragment event
Channel(name) == IF name = "chat.delta" THEN "chat" ELSE "agent"

\* the text of the stream at sk, empty when there is no state for sk
TextOf(streams, sk) == IF sk \in DOMAIN streams THEN streams[sk].text ELSE <<>>

\* C7: for every session stream state, from creation to deletion: a processed
\* fragment changes the accumulated text exactly by appending the text of the
\* streamChunk it emits, at most one and never empty, and emits none exactly when
\* the text is unchanged; no step shrinks the text of a state that survives it;
\* and the in-order concatenation of all chunks emitted since the state's
\* creation (chunkCat) equals its accumulated text.
C7_AppendOnlyChunkLaw ==
    /\ [](/\ DOMAIN chunkCat = DOMAIN sessionStreams
          /\ \A sk \in DOMAIN sessionStreams : chunkCat[sk] = sessionStreams[sk].text)
    /\ [][/\ \A sk \in DOMAIN sessionStreams \cap DOMAIN sessionStreams' :
                StartsWith(sessionStreams'[sk].text, sessionStreams[sk].text)
          /\ op'.name \in FragmentOps =>
                LET sk     == resolveEventSessionKey(op'.key)
                    before == TextOf(sessionStreams, sk)
                    after  == TextOf(sessionStreams', sk)
                    chunks == ChunkTexts(emitted')
                IN  /\ Len(chunks) <= 1
                    /\ \A i \in 1..Len(chunks) : chunks[i] # <<>>
                    /\ after = before \o Concat(chunks)
                    /\ (chunks = <<>>) <=> (after = before)
          /\ op'.name \notin FragmentOps => ChunkTexts(emitted') = <<>>]_vars

\* a cumulative fragment unrelated to the text was appended as a new content block
\* and filled the text to MaxText: the chunk is the separator and the fragment,
\* the chunk history is the whole text
C7_Witness ==
    /\ op.name = "agent.assistant" /\ op.shape = "cumulative"
    /\ FallbackKey \in DOMAIN sessionStreams
    /\ sessionStreams[FallbackKey].blockOffset > 0
    /\ ChunkTexts(emitted) = <<Separator \o op.text>>
    /\ Len(sessionStreams[FallbackKey].text) = MaxText
    /\ chunkCat[FallbackKey] = sessionStreams[FallbackKey].text

\* C9: when the same cumulative fragment is fed to the same session twice in
\* succession (both feeds processed by the channel that owns the state), the second
\* feed emits no streamChunk and leaves the accumulated text and blockOffset as
\* they are, in every state the first feed can have produced; and a cumulative
\* fragment fed to a fresh state emits exactly one chunk, which is not empty, so
\* that the two feeds together emit exactly one.
C9_DuplicateSuppressed ==
    [][op'.name \in FragmentOps /\ op'.shape = "cumulative" =>
          LET sk    == resolveEventSessionKey(op'.key)
              F     == SubstituteHeartbeat(op'.text)
              owned == sk \in DOMAIN sessionStreams
                       /\ sessionStreams[sk].source = Channel(op'.name)
              fresh == \/ sk \notin DOMAIN sessionStreams
                       \/ /\ sessionStreams[sk].text = <<>>
                          /\ sessionStreams[sk].source \in {"null", Channel(op'.name)}
          IN  /\ (op'.again /\ owned) =>
                    /\ ChunkTexts(emitted') = <<>>
                    /\ sessionStreams'[sk].text = sessionStreams[sk].text
                    /\ sessionStreams'[sk].blockOffset = sessionStreams[sk].blockOffset
              /\ fresh => /\ ChunkTexts(emitted') = <<F>>
                          /\ F # <<>>
                          /\ sessionStreams'[sk].text = F]_vars

\* the second of two feeds of one chat fragment whose first feed started a new
\* content block: the fragment is the whole current block, no chunk was emitted
C9_Witness ==
    /\ op.name = "chat.delta" /\ op.again /\ op.shape = "cumulative"
    /\ FallbackKey \in DOMAIN sessionStreams
    /\ sessionStreams[FallbackKey].source = "chat"
    /\ sessionStreams[FallbackKey].blockOffset > 0
    /\ SliceFrom(sessionStreams[FallbackKey].text,
                 sessionStreams[FallbackKey].blockOffset) = op.text
    /\ ChunkTexts(emitted) = <<>>

\* C10: a delta fragment F merged into a non-empty accumulated text P: if F starts
\* with P the text becomes F; else if P ends with F nothing changes and nothing
\* is emitted; otherwise the text becomes P followed by F without its longest
\* prefix that is also a suffix of P (overlap lengths 1..min(|P|,|F|)), all of F
\* when there is none; the chunk is exactly the appended part.  With
\* P = 'The cat sat' and F = 'cat sat on the mat' the chunk is ' on the mat' and
\* the text 'The cat sat on the mat'.
C10_DeltaMerge ==
    /\ [](LET P  == <<"T", "h", "e", " ", "c", "a", "t", " ", "s", "a", "t">>
              F  == <<"c", "a", "t", " ", "s", "a", "t", " ", "o", "n", " ", "t", "h",
                      "e", " ", "m", "a", "t">>
              on == <<" ", "o", "n", " ", "t", "h", "e", " ", "m", "a", "t">>
              ss == [createSessionStream EXCEPT !.source = "agent", !.mode = "delta",
                                                !.started = TRUE, !.text = P]
              ap == applyStreamText(P, mergeIncoming(ss, F, "delta").text)
          IN  ap.chunks = <<on>> /\ ap.text = P \o on)
    /\ [][(/\ op'.name = "agent.assistant" /\ op'.shape = "delta"
           /\ resolveEventSessionKey(op'.key) \in DOMAIN sessionStreams
           /\ sessionStreams[resolveEventSessionKey(op'.key)].source = "agent"
           /\ sessionStreams[resolveEventSessionKey(op'.key)].text # <<>>) =>
             LET sk  == resolveEventSessionKey(op'.key)
                 P   == sessionStreams[sk].text
                 F   == SubstituteHeartbeat(op'.text)
                 ovs == {k \in 1..Min(Len(P), Len(F)) :
                            SubSeq(P, Len(P) - k + 1, Len(P)) = SubSeq(F, 1, k)}
                 ov  == IF ovs = {} THEN 0 ELSE CHOOSE k \in ovs : \A j \in ovs : j <= k
                 exp == IF StartsWith(F, P) THEN F
                        ELSE IF EndsWith(P, F) THEN P
                        ELSE P \o SubSeq(F, ov + 1, Len(F))
             IN  /\ sessionStreams'[sk].text = exp
                 /\ ChunkTexts(emitted') =
                       IF exp = P THEN <<>> ELSE <<SubSeq(exp, Len(P) + 1, Len(exp))>>]_vars

\* the delta 'aab' merged into 'baa': of the overlaps 'a' and 'aa' the longer one
\* was dropped from the fragment, and the chunk is 'b'
C10_Witness ==
    /\ op.name = "agent.assistant" /\ op.shape = "delta"
    /\ op.text = <<"a", "a", "b">>
    /\ FallbackKey \in DOMAIN sessionStreams
    /\ sessionStreams[FallbackKey].text = <<"b", "a", "a", "b">>
    /\ ChunkTexts(emitted) = << <<"b">> >>

\* C8: once the stream state of a session has its source claimed by one channel,
\* a fragment of the other channel for the same session key emits no streamStart
\* and no streamChunk and changes nothing: not that stream state (text, mode,
\* blockOffset, started, runId) and no other state of the client.
C8_ForeignFragmentIgnored ==
    [][(/\ op'.name \in FragmentOps
        /\ resolveEventSessionKey(op'.key) \in DOMAIN sessionStreams
        /\ sessionStreams[resolveEventSessionKey(op'.key)].source
              \notin {"null", Channel(op'.name)}) =>
          /\ ~HasEvent(emitted', "streamStart")
          /\ ~HasEvent(emitted', "streamChunk")
          /\ sessionStreams' = sessionStreams
          /\ UNCHANGED <<parentSessionKeys, defaultSessionKey, sessionKeyResolved,
                         connVars, rpcVars>>]_vars

\* C11: a cumulative fragment F processed by the channel that owns a state with
\* non-empty text P and block offset b: if F equals P nothing changes; if P is a
\* prefix of F the text becomes F; else if the current block P[b..] is a prefix of F
\* the text becomes P[0..b) followed by F and b is unchanged; otherwise the text
\* becomes P, two newlines, F and b becomes |P| + 2.  In every state the block
\* offset lies inside the text, so the current block is never empty.  With
\* P = 'a\n\nb', b = 3 and F = 'bab' the text becomes 'a\n\nbab' and b stays 3.
C11_CumulativeMerge ==
    /\ [](LET P  == <<"a", "\n", "\n", "b">>
              F  == <<"b", "a", "b">>
              ss == [createSessionStream EXCEPT !.source = "chat", !.mode = "cumulative",
                                                !.started = TRUE, !.text = P,
                                                !.blockOffset = 3]
              me == mergeIncoming(ss, F, "cumulative")
          IN  /\ applyStreamText(P, me.text).text = <<"a", "\n", "\n", "b", "a", "b">>
              /\ me.blockOffset = 3)
    /\ [](\A sk \in DOMAIN sessionStreams :
             sessionStreams[sk].text # <<>>
                => sessionStreams[sk].blockOffset < Len(sessionStreams[sk].text))
    /\ [][(/\ op'.name \in FragmentOps /\ op'.shape = "cumulative"
           /\ resolveEventSessionKey(op'.key) \in DOMAIN sessionStreams
           /\ sessionStreams[resolveEventSessionKey(op'.key)].source = Channel(op'.name)
           /\ sessionStreams[resolveEventSessionKey(op'.key)].text # <<>>) =>
             LET sk == resolveEventSessionKey(op'.key)
                 P  == sessionStreams[sk].text
                 b  == sessionStreams[sk].blockOffset
                 F  == SubstituteHeartbeat(op'.text)
                 T  == sessionStreams'[sk].text
                 c  == sessionStreams'[sk].blockOffset
             IN  IF F = P THEN T = P /\ c = b /\ ChunkTexts(emitted') = <<>>
                 ELSE IF Len(F) >= Len(P) /\ SubSeq(F, 1, Len(P)) = P THEN T = F
                 ELSE IF /\ Len(F) >= Len(P) - b
                         /\ SubSeq(F, 1, Len(P) - b) = SubSeq(P, b + 1, Len(P))
                 THEN T = SubSeq(P, 1, b) \o F /\ c = b
                 ELSE T = P \o <<"\n", "\n">> \o F /\ c = Len(P) + 2]_vars

\* a cumulative fragment that restates the current block of a text of two blocks:
\* the splice case, which leaves the text and the block offset as they were
C11_Witness ==
    /\ op.name = "chat.delta" /\ op.shape = "cumulative"
    /\ FallbackKey \in DOMAIN sessionStreams
    /\ sessionStreams[FallbackKey].source = "chat"
    /\ sessionStreams[FallbackKey].blockOffset = 3
    /\ sessionStreams[FallbackKey].text = <<"a", "\n", "\n", "b">>
    /\ op.text = <<"b">>
    /\ ~op.again

----------------------------------------------------------------------------
(* Sub-agent detection: claim C12                                           *)

\* emit('subagentDetected', { sessionKey: key }) is among evs
Detected(evs, key) ==
    \E i \in 1..Len(evs) : evs[i].ev = "subagentDetected" /\ evs[i].key = key

\* C12: subagentDetected is emitted exactly once for a session key that is not
\* empty and not in the parent key set, however many events bear that key: an
\* event bearing a key for which the event handled just before it emitted
\* subagentDetected does not emit subagentDetected for that key again.
C12_SubagentDetectedOnce ==
    [][\A k \in EventKeys : Detected(emitted, k) => ~Detected(emitted', k)]_vars

----------------------------------------------------------------------------
(* Reconnection against a server that may accept the transport and close it *)
(* before the handshake completes: the application connects when nothing is *)
(* alive or scheduled and never calls disconnect(); the server answers the  *)
(* handshake with hello-ok or not at all, and may push a chat fragment.      *)

MaxChain == 7        \* WebSockets created in one run of the reconnection chain

NextReconnect ==
    \/ (ClientIdle /\ Len(socks) < MaxChain /\ Connect)
    \/ (Len(socks) < MaxChain /\ ReconnectTimerFires)
    \/ \E s \in 1..MaxChain : SockOpen(s)
    \/ \E s \in 1..MaxChain, failed \in BOOLEAN : SockClose(s, failed)
    \/ \E s \in 1..MaxChain : RecvResponse(s, 1, TRUE, "hello-ok", "")
    \/ \E s \in 1..MaxChain : ChatDelta(s, NoKey, NoRun, <<"a">>)

SpecReconnect == Init /\ [][NextReconnect]_vars

\* the last connect() whose promise was resolved by the handshake, 0 when none
LastSuccess ==
    LET done == {i \in DOMAIN socks : socks[i].promise = "resolved"}
    IN  IF done = {} THEN 0 ELSE CHOOSE i \in done : \A j \in done : j <= i

\* the connect() calls made by the reconnection timer since the last success
AutoAttempts ==
    Cardinality({i \in DOMAIN socks : i > LastSuccess /\ socks[i].auto})

\* C13: the automatic reconnection attempts made since the last successful
\* connect (a connect whose handshake completed), together with the attempts
\* that are scheduled, never exceed 5: after 5 attempts that each failed, no
\* further attempt is scheduled.
C13_ReconnectCap ==
    AutoAttempts + reconnectTimers <= DefaultMaxReconnectAttempts

----------------------------------------------------------------------------
(* Disconnect and close handling: claims C14, C15                           *)

\* disconnect() has been called: it is the only assignment of maxReconnectAttempts
DisconnectCalled == maxReconnectAttempts = 0

\* C14: once disconnect() has been called the client opens no transport on its
\* own: no step after it is the reconnection timer calling connect(), whether the
\* timer was scheduled by a close before or after disconnect() ran.
C14_NoReconnectAfterDisconnect ==
    [][DisconnectCalled => op'.name # "reconnectTimer"]_vars

\* the subscriber events named name among evs
CountEvents(evs, name) == Cardinality({i \in 1..Len(evs) : evs[i].ev = name})

\* C15: when the transport of a connection closes and disconnect() has not been
\* called, the handling of the close leaves the session stream table empty and
\* authenticated false, emits exactly one 'disconnected' event, and schedules one
\* reconnection attempt if fewer than maxReconnectAttempts attempts were counted,
\* none otherwise.
C15_UnexpectedClose ==
    [][(/\ op'.name \in {"onclose", "onerror+onclose"}
        /\ ~DisconnectCalled
        /\ \E s \in DOMAIN socks : /\ socks[s].attached
                                   /\ socks[s].rs # "CLOSED"
                                   /\ socks'[s].rs = "CLOSED") =>
          /\ DOMAIN sessionStreams' = {}
          /\ ~authenticated'
          /\ CountEvents(emitted', "disconnected") = 1
          /\ reconnectTimers' =
                reconnectTimers
                + (IF reconnectAttempts < DefaultMaxReconnectAttempts THEN 1 ELSE 0)]_vars

\* the fifth reconnection in a row failed before its transport opened: the close
\* emitted the error and one 'disconnected', and scheduled no further attempt
C15_Witness ==
    /\ op.name = "onerror+onclose"
    /\ CountEvents(emitted, "disconnected") = 1
    /\ Len(emitted) = 2
    /\ reconnectAttempts = DefaultMaxReconnectAttempts
    /\ reconnectTimers = 0
    /\ AutoAttempts = DefaultMaxReconnectAttempts
    /\ ~authenticated
    /\ sessionStreams = EmptyStreams

----------------------------------------------------------------------------
(* Handshake: claims C16 - C19                                              *)

\* the connect/auth request frames among frames
ConnectFrames(frames) == {i \in 1..Len(frames) : frames[i].method = "connect"}

C17_OneConnectRequest ==
    [][(op.name = "challenge" /\ ConnectFrames(sentNow) # {} /\ op'.name = "challenge")
          => ConnectFrames(sentNow') = {}]_vars

\* C18: while the client is not authenticated, a response with ok = true and a
\* hello-ok payload sets authenticated, emits 'connected', resolves the connect()
\* promise of the connection (if still pending) and is not delivered to a call():
\* nothing is settled and the pending table is untouched, even when the response's
\* id is that of a pending request.  'connected' is emitted only by a step that
\* turns authenticated from false to true; authenticated is true only while the
\* connection that authenticated is open, and is cleared only by the handling of
\* its close or by disconnect(): 'connected' is emitted at most once between an
\* open and the following close.
C18_HelloOk ==
    /\ [](authenticated => \E s \in DOMAIN socks : CanReceive(s) /\ ws = s)
    /\ [][/\ (op'.name = "res" /\ ~authenticated /\ op'.ok /\ op'.payload = "hello-ok")
               => /\ authenticated'
                  /\ emitted' = <<[ev |-> "connected", key |-> "", text |-> <<>>]>>
                  /\ op'.result = "resolve"
                  /\ \A s \in DOMAIN socks :
                        CanReceive(s) =>
                           socks'[s].promise = IF socks[s].promise = "pending"
                                               THEN "resolved" ELSE socks[s].promise
                  /\ settledNow' = <<>>
                  /\ UNCHANGED <<pendingRequests, calls, timers>>
          /\ HasEvent(emitted', "connected")
               => /\ op'.name = "res" /\ ~authenticated /\ authenticated'
                  /\ CountEvents(emitted', "connected") = 1
          /\ (authenticated /\ ~authenticated')
               => op'.name \in {"onclose", "onerror+onclose", "disconnect"}]_vars

\* a hello-ok response carrying the id of a pending request completed the
\* handshake; the request is still pending
C18_Witness ==
    /\ op.name = "res"
    /\ op.result = "resolve"
    /\ op.id \in pendingRequests
    /\ calls[op.id].status = "pending"
    /\ authenticated
    /\ emitted = <<Ev("connected", "", <<>>)>>
    /\ socks[ws].promise = "resolved"

\* C19 as stated: every response with ok = false that arrives while the client is
\* not authenticated rejects the connect() promise, with the server's message or
\* with a default message.
C19_FailureRejectsConnect ==
    [][(op'.name = "res" /\ ~op'.ok /\ ~authenticated)
          => op'.result \in {"reject: " \o e : e \in (ErrTexts \ {""}) \cup
                                                    {"Handshake failed", "Unknown error"}}]_vars

\* C19 amended: a response with ok = false that arrives while the client is not
\* authenticated rejects the connect() promise, with the server's message or
\* 'Handshake failed', only if its id has no pending entry; if its id is that of a
\* pending request it rejects that request's promise, with the server's message or
\* 'Unknown error', and the connect() promise is left as it is.
C19_UnmatchedFailureRejectsConnect ==
    [][(op'.name = "res" /\ ~op'.ok /\ ~authenticated) =>
          IF op'.id \in pendingRequests
          THEN /\ op'.result = ""
               /\ socks' = socks
               /\ settledNow' = <<[id |-> op'.id, how |-> "rejected",
                                   value |-> IF op'.err = "" THEN "Unknown error"
                                             ELSE op'.err]>>
          ELSE /\ op'.result = "reject: " \o (IF op'.err = "" THEN "Handshake failed"
                                              ELSE op'.err)
               /\ settledNow' = <<>>
               /\ \A s \in DOMAIN socks :
                     CanReceive(s) =>
                        socks'[s].promise = IF socks[s].promise = "pending"
                                            THEN "rejected" ELSE socks[s].promise]_vars

\* a failure response for a request sent before the handshake completed rejected
\* that request; the connect() promise is still pending
C19_Witness ==
    /\ op.name = "res"
    /\ ~op.ok
    /\ ~authenticated
    /\ op.result = ""
    /\ Len(settledNow) = 1
    /\ settledNow[1].how = "rejected"
    /\ ws # 0
    /\ socks[ws].promise = "pending"
    /\ socks[ws].rs = "OPEN"

----------------------------------------------------------------------------
(* Chat final: claim C20                                                    *)

IsFinalEvent(e) == e.ev \in {"message", "streamEnd"}

\* C20: a chat final for session key k emits 'message' iff its extracted text is
\* not empty, then streamEnd iff the state of k is started at that moment, and
\* deletes the state of k: after a final there is no state for k, and a final
\* repeated at once finds none and emits no streamEnd.  In the sequence agent
\* fragment 'Hi', agent fragment 'Hi there', lifecycle end, chat final 'Hi there'
\* the client emits one streamStart, the chunks 'Hi' and ' there', one streamEnd
\* (at the lifecycle end, none at the final) and one message 'Hi there'.
C20_ChatFinal ==
    /\ [](LET Hi      == <<"H", "i">>
              there   == <<" ", "t", "h", "e", "r", "e">>
              e1      == ensureStream(createSessionStream, "agent", "cumulative", NoRun)
              a1      == applyStreamText(e1.ss.text,
                                         mergeIncoming(e1.ss, Hi, "cumulative").text)
              s1      == [e1.ss EXCEPT !.text = a1.text]
              e2      == ensureStream(s1, "agent", "cumulative", NoRun)
              a2      == applyStreamText(e2.ss.text,
                                         mergeIncoming(e2.ss, Hi \o there, "cumulative").text)
              s2      == [e2.ss EXCEPT !.text = a2.text]
              s3      == [s2 EXCEPT !.started = FALSE]
          IN  /\ e1.start /\ ~e2.start
              /\ a1.chunks = <<Hi>> /\ a2.chunks = <<there>>
              /\ lifecycleEnds(s2, TRUE)
              /\ chatFinalEvents(s3, NoKey, Hi \o there)
                    = <<[ev |-> "message", key |-> NoKey, text |-> Hi \o there]>>)
    /\ [][op'.name = "chat.final" =>
             LET sk      == resolveEventSessionKey(op'.key)
                 started == sk \in DOMAIN sessionStreams /\ sessionStreams[sk].started
             IN  /\ sk \notin DOMAIN sessionStreams'
                 /\ SelectSeq(emitted', IsFinalEvent) =
                       (IF op'.text # <<>>
                        THEN <<[ev |-> "message", key |-> op'.key,
                                text |-> SubstituteHeartbeat(op'.text)]>>
                        ELSE <<>>)
                       \o (IF started
                           THEN <<[ev |-> "streamEnd", key |-> op'.key, text |-> <<>>]>>
                           ELSE <<>>)
                 /\ ~HasEvent(emitted', "streamStart")
                 /\ ~HasEvent(emitted', "streamChunk")
                 /\ op'.again => /\ sk \notin DOMAIN sessionStreams
                                 /\ ~HasEvent(emitted', "streamEnd")]_vars

\* the final 'ab' of a stream that was started and held the text 'ab': the
\* message, then streamEnd, and the state is gone
C20_Witness ==
    /\ op.name = "chat.final"
    /\ op.text = <<"a", "b">>
    /\ emitted = <<Ev("message", NoKey, <<"a", "b">>), Ev("streamEnd", NoKey, <<>>)>>
    /\ FallbackKey \notin DOMAIN sessionStreams
    /\ FallbackKey \notin DOMAIN chunkCat

----------------------------------------------------------------------------
(* Lifecycle end and stream start/end: claims C21, C22                      *)

StreamRemovers == {"chat.final", "onclose", "onerror+onclose", "disconnect"}

\* C21 as stated: a lifecycle event signalling end or error emits nothing when
\* the state is chat-owned, unclaimed or not started.
C21_IdleLifecycleEndEmitsNothing ==
    [][(/\ op'.name = "agent.lifecycle.end"
        /\ ~(/\ getStream(resolveEventSessionKey(op'.key)).source = "agent"
             /\ getStream(resolveEventSessionKey(op'.key)).started))
          => emitted' = <<>>]_vars

\* C21 amended: a lifecycle event signalling end or error emits streamEnd, once,
\* and sets started = false iff the session's state is owned by the agent channel
\* and started; it keeps the state (creating it when absent) with its source, text,
\* mode, blockOffset and runId; when the state is chat-owned, unclaimed or not
\* started it emits no streamEnd, and it never emits streamStart or streamChunk.
\* What it can emit besides is subagentDetected and streamSessionKey, by the
\* sub-agent detection and the session-key resolution that run for every agent
\* event.  Only a chat final or a connection reset removes a stream state.
C21_LifecycleEnd ==
    [][/\ op'.name = "agent.lifecycle.end" =>
             LET sk   == resolveEventSessionKey(op'.key)
                 ss   == getStream(sk)
                 ends == ss.source = "agent" /\ ss.started
             IN  /\ sk \in DOMAIN sessionStreams'
                 /\ sessionStreams'[sk] = [ss EXCEPT !.started = ss.started /\ ~ends]
                 /\ CountEvents(emitted', "streamEnd") = IF ends THEN 1 ELSE 0
                 /\ \A i \in 1..Len(emitted') :
                       emitted'[i].ev \in {"streamEnd", "subagentDetected",
                                           "streamSessionKey"}
                 /\ \A k \in DOMAIN sessionStreams \ {sk} :
                       k \in DOMAIN sessionStreams'
                       /\ sessionStreams'[k] = sessionStreams[k]
       /\ (\E k \in DOMAIN sessionStreams : k \notin DOMAIN sessionStreams')
             => op'.name \in StreamRemovers]_vars

\* a lifecycle end for a chat-owned, started stream that holds text: no streamEnd,
\* the state is as it was
C21_Witness ==
    /\ op.name = "agent.lifecycle.end"
    /\ op.key \in DOMAIN sessionStreams
    /\ sessionStreams[op.key].source = "chat"
    /\ sessionStreams[op.key].started
    /\ sessionStreams[op.key].text # <<>>
    /\ ~HasEvent(emitted, "streamEnd")

\* the handlers of handleNotification, by the name of the step
NotificationOps ==
    {"chat.delta", "chat.final", "agent.assistant", "agent.tool", "agent.lifecycle",
     "agent.lifecycle.end", "presence", "custom"}

\* the stream of session key k exists and is started
IsStarted(streams, k) == k \in DOMAIN streams /\ streams[k].started

\* C22: within one connection epoch the streamStart and streamEnd events of a
\* session strictly alternate, beginning with streamStart.  The handling of one
\* event emits at most one of them, for the session the event resolves to:
\* streamStart only when the session's stream is not started, and the stream is
\* started after it; streamEnd only when it is started, and it is not started
\* after it; the started flag of a session changes in no other way, except that
\* a connection reset clears it (with the whole stream state) and ends the epoch.
C22_StartEndAlternate ==
    [][/\ op'.name \in NotificationOps =>
             LET sk     == resolveEventSessionKey(op'.key)
                 starts == CountEvents(emitted', "streamStart")
                 ends   == CountEvents(emitted', "streamEnd")
             IN  /\ starts + ends <= 1
                 /\ starts = 1 => /\ ~IsStarted(sessionStreams, sk)
                                  /\ IsStarted(sessionStreams', sk)
                 /\ ends = 1 => /\ IsStarted(sessionStreams, sk)
                                /\ ~IsStarted(sessionStreams', sk)
                 /\ IsStarted(sessionStreams, sk) # IsStarted(sessionStreams', sk)
                       => starts + ends = 1
                 /\ \A k \in (DOMAIN sessionStreams \cup DOMAIN sessionStreams') \ {sk} :
                       IsStarted(sessionStreams', k) = IsStarted(sessionStreams, k)
       /\ op'.name \notin NotificationOps =>
             /\ ~HasEvent(emitted', "streamStart")
             /\ ~HasEvent(emitted', "streamEnd")
             /\ \A k \in DOMAIN sessionStreams' :
                   IsStarted(sessionStreams', k) => IsStarted(sessionStreams, k)
             /\ (\E k \in DOMAIN sessionStreams : ~IsStarted(sessionStreams', k)
                                                  /\ IsStarted(sessionStreams, k))
                   => op'.name \in StreamRemovers]_vars

\* the second streamStart of a session in one epoch: the stream had been ended by
\* a lifecycle end and kept its text; an agent fragment that adds nothing to the
\* text started it again
C22_Witness ==
    /\ op.name = "agent.assistant"
    /\ op.text # <<>>
    /\ HasEvent(emitted, "streamStart")
    /\ ~HasEvent(emitted, "streamChunk")
    /\ IsStarted(sessionStreams, op.key)
    /\ sessionStreams[op.key].text # <<>>

----------------------------------------------------------------------------
(* Heartbeat suppression: claim C23.  One connection, key-less events, and  *)
(* fragments made of the letters of the sentinel, in either letter case.    *)

SentinelChars == {"O", "k"}
MaxPiece == 2        \* length of the text of one fragment

Pieces == UNION {[1..n -> SentinelChars] : n \in 1..MaxPiece}

NextHeartbeat ==
    \/ (ClientIdle /\ Len(socks) < MaxSockets /\ Connect)
    \/ \E s \in 1..MaxSockets : SockOpen(s)
    \/ \E s \in 1..MaxSockets : SockClose(s, FALSE)
    \/ \E s \in 1..MaxSockets, t \in Pieces : ChatDelta(s, NoKey, NoRun, t)
    \/ \E s \in 1..MaxSockets, t \in Pieces :
          AgentAssistant(s, NoKey, NoRun, TRUE, t, <<>>)
    \/ \E s \in 1..MaxSockets, t \in Pieces :
          AgentAssistant(s, NoKey, NoRun, FALSE, <<>>, t)
    \/ \E s \in 1..MaxSockets, t \in Pieces : ChatFinal(s, NoKey, NoRun, t)

SpecHeartbeat == Init /\ [][NextHeartbeat]_vars

\* C23: a fragment or a final message whose text contains a heartbeat sentinel,
\* in any letter case, is replaced by the placeholder, so that no accumulated
\* stream text, no emitted streamChunk text and no emitted message content ever
\* contains a heartbeat sentinel, after any sequence of fragments.
C23_NoHeartbeatText ==
    /\ \A sk \in DOMAIN sessionStreams : ~isHeartbeatContent(sessionStreams[sk].text)
    /\ \A i \in 1..Len(emitted) :
          emitted[i].ev \in {"streamChunk", "message"}
             => ~isHeartbeatContent(emitted[i].text)

----------------------------------------------------------------------------
(* Session keys: claims C24 - C26                                           *)

\* the steps that reset the stream state of the connection
ResetOps == {"onclose", "onerror+onclose", "disconnect"}

\* C24: within one send cycle (from a setPrimarySessionKey with a key until the
\* next one or a connection reset) streamSessionKey is emitted at most once: a
\* step emits at most one, only while the cycle is unresolved, and resolves the
\* cycle; the cycle becomes unresolved again only by setPrimarySessionKey with a
\* key or by a connection reset.  It is emitted only while a default key is set,
\* for a key that differs from the default key and is not in the parent set, and
\* after the step that key is in the parent set.
C24_SessionKeyOncePerCycle ==
    [][/\ CountEvents(emitted', "streamSessionKey") <= 1
       /\ \A i \in 1..Len(emitted') :
             emitted'[i].ev = "streamSessionKey" =>
                /\ ~sessionKeyResolved
                /\ sessionKeyResolved'
                /\ defaultSessionKey # NoKey
                /\ defaultSessionKey' = defaultSessionKey
                /\ emitted'[i].key # defaultSessionKey
                /\ emitted'[i].key \notin parentSessionKeys
                /\ parentSessionKeys' = parentSessionKeys \cup {emitted'[i].key}
       /\ (sessionKeyResolved /\ ~sessionKeyResolved') =>
             \/ op'.name \in ResetOps
             \/ op'.name = "setPrimarySessionKey" /\ op'.key # NoKey]_vars

\* the server reported key 'A' for a cycle whose default key is 'B'
C24_Witness ==
    /\ HasEvent(emitted, "streamSessionKey")
    /\ defaultSessionKey = "B"
    /\ sessionKeyResolved
    /\ parentSessionKeys = {"A", "B"}

\* the keys of the events named name among evs
EventKeysOf(evs, name) == {evs[i].key : i \in {j \in 1..Len(evs) : evs[j].ev = name}}

\* C25: the parent key set changes only by setPrimarySessionKey with a key
\* (which adds the key and makes it the default key), by a step that emits
\* streamSessionKey (which adds the emitted key), and by a connection reset
\* (which clears it); setPrimarySessionKey without a key clears the default key
\* and nothing else; a step that emits subagentDetected without streamSessionKey
\* leaves the parent set unchanged.
C25_ParentSetChanges ==
    [][/\ (op'.name = "setPrimarySessionKey" /\ op'.key # NoKey) =>
             /\ parentSessionKeys' = parentSessionKeys \cup {op'.key}
             /\ defaultSessionKey' = op'.key
       /\ (op'.name = "setPrimarySessionKey" /\ op'.key = NoKey) =>
             /\ defaultSessionKey' = NoKey
             /\ UNCHANGED <<parentSessionKeys, sessionKeyResolved, sessionStreams>>
       /\ op'.name \in ResetOps => parentSessionKeys' = {}
       /\ HasEvent(emitted', "streamSessionKey") =>
             parentSessionKeys' =
                parentSessionKeys \cup EventKeysOf(emitted', "streamSessionKey")
       /\ (/\ op'.name # "setPrimarySessionKey"
           /\ op'.name \notin ResetOps
           /\ ~HasEvent(emitted', "streamSessionKey")) =>
             UNCHANGED parentSessionKeys]_vars

\* the default key was cleared with the parent set kept, and an event of the
\* session 'A' was then reported as a sub-agent without being added to the set
C25_Witness ==
    /\ defaultSessionKey = NoKey
    /\ parentSessionKeys = {"B"}
    /\ HasEvent(emitted, "subagentDetected")
    /\ ~HasEvent(emitted, "streamSessionKey")

\* Two sessions on one connection: events carry the session key 'A', 'B' or
\* none, and no run id; the application names 'A' its primary session, or none;
\* every fragment is one character and the streams together hold at most
\* MaxIsoText characters; the connection stays open.
IsoKeys  == {NoKey, "A", "B"}
IsoFrags == {<<"a">>, <<"b">>}
MaxIsoText == 2

NextIsolation ==
    \/ (ClientIdle /\ Len(socks) < MaxSockets /\ Connect)
    \/ \E s \in 1..MaxSockets : SockOpen(s)
    \/ setPrimarySessionKey("A")
    \/ \E s \in 1..MaxSockets, k \in IsoKeys, t \in IsoFrags :
          ChatDelta(s, k, NoRun, t) /\ TotalText(sessionStreams') <= MaxIsoText
    \/ \E s \in 1..MaxSockets, k \in IsoKeys, t \in IsoFrags :
          AgentAssistant(s, k, NoRun, TRUE, t, <<>>)
          /\ TotalText(sessionStreams') <= MaxIsoText
    \/ \E s \in 1..MaxSockets, k \in IsoKeys : ChatFinal(s, k, NoRun, <<>>)
    \/ \E s \in 1..MaxSockets, k \in IsoKeys : AgentLifecycle(s, k, NoRun, TRUE)

SpecIsolation == Init /\ [][NextIsolation]_vars

\* the entry of key k in a table, as a sequence: empty when there is none
EntryOf(table, k) == IF k \in DOMAIN table THEN <<table[k]>> ELSE <<>>

\* C26: a step that handles a chat or agent event whose resolved session key is
\* sk leaves the stream state of every other key as it was (none created, none
\* modified, none deleted) and emits no chunk for another key, so the chunks
\* emitted so far for another key are unchanged; the chunks it emits for sk are
\* those that the merge of the event's fragment into the stream state of sk
\* alone gives, whatever the table holds for other keys.
C26_CrossSessionIsolation ==
    [][op'.name \in NotificationOps =>
          LET sk  == resolveEventSessionKey(op'.key)
              own == getStream(sk)
              merged  == mergeIncoming(own, SubstituteHeartbeat(op'.text), op'.shape)
              applied == applyStreamText(own.text, merged.text)
              owned   == own.source \in {"null", Channel(op'.name)}
          IN  /\ \A b \in (DOMAIN sessionStreams \cup DOMAIN sessionStreams'
                           \cup DOMAIN chunkCat \cup DOMAIN chunkCat') \ {sk} :
                    /\ EntryOf(sessionStreams', b) = EntryOf(sessionStreams, b)
                    /\ EntryOf(chunkCat', b) = EntryOf(chunkCat, b)
              /\ \A i \in 1..Len(emitted') :
                    emitted'[i].ev = "streamChunk" => emitted'[i].key = sk
              /\ ChunkTexts(emitted') =
                    IF op'.name \in FragmentOps /\ op'.text # <<>> /\ owned
                    THEN applied.chunks ELSE <<>>]_vars

\* a fragment for 'A' has just been merged and emitted while 'B' holds text, and
\* the two streams hold different texts
C26_Witness ==
    /\ op.name \in FragmentOps
    /\ op.key = "A"
    /\ HasEvent(emitted, "streamChunk")
    /\ TextOf(sessionStreams, "B") # <<>>
    /\ TextOf(sessionStreams, "A") # TextOf(sessionStreams, "B")

----------------------------------------------------------------------------
(* Fragment mode: claim C27                                                 *)

\* C27 as stated: the mode of a session stream is set by its first fragment and
\* not changed afterwards, and every later fragment of the stream is merged
\* under that mode, whatever the shape of the later fragment.
C27_ModeFixedByFirstFragment ==
    [][(op'.name \in FragmentOps /\ op'.text # <<>>) =>
          LET sk  == resolveEventSessionKey(op'.key)
              own == getStream(sk)
              merged == mergeIncoming(own, SubstituteHeartbeat(op'.text), own.mode)
          IN  (own.mode # "null" /\ own.source = Channel(op'.name)) =>
                 /\ sessionStreams'[sk].mode = own.mode
                 /\ sessionStreams'[sk].text
                       = applyStreamText(own.text, merged.text).text]_vars

----------------------------------------------------------------------------
(* Subscribers and frames: claims C28 - C30                                 *)

\* C28: whichever of the handlers registered for an event throw, the dispatch
\* of every event a step emits invokes every registered handler, in order, and
\* no exception leaves emit; the state after the step is the one reached when
\* no handler throws: a fragment step that emits streamStart goes on to merge
\* its fragment and to emit its chunks.
C28_SubscriberFaultIsolation ==
    [][/\ emitted' # <<>> =>
             \A throwing \in Faults :
                emit(Handlers, throwing) = emit(Handlers, {})
                /\ emit(Handlers, throwing).invoked = Handlers
                /\ ~emit(Handlers, throwing).propagated
       /\ (/\ op'.name \in FragmentOps
           /\ op'.text # <<>>
           /\ HasEvent(emitted', "streamStart")) =>
             LET sk  == resolveEventSessionKey(op'.key)
                 own == getStream(sk)
                 merged  == mergeIncoming(own, SubstituteHeartbeat(op'.text), op'.shape)
                 applied == applyStreamText(own.text, merged.text)
             IN  /\ sessionStreams'[sk].text = applied.text
                 /\ sessionStreams'[sk].started
                 /\ ChunkTexts(emitted') = applied.chunks]_vars

\* a fragment has just started a stream and its text was merged and emitted
C28_Witness ==
    /\ op.name \in FragmentOps
    /\ HasEvent(emitted, "streamStart")
    /\ HasEvent(emitted, "streamChunk")
    /\ TextOf(sessionStreams, FallbackKey) # <<>>

\* The frames of one connection: the handshake, one request and its response,
\* frames that do not parse, a chat fragment, and presence and other events with
\* the session key 'A' or none, while the application may name 'B' its primary
\* session.
NextFrames ==
    \/ (ClientIdle /\ Len(socks) < MaxSockets /\ Connect)
    \/ \E s \in 1..MaxSockets : SockOpen(s)
    \/ \E s \in 1..MaxSockets : SockClose(s, FALSE)
    \/ setPrimarySessionKey("B")
    \/ Call(MethodFor(requestId + 1))
    \/ \E s \in 1..MaxSockets : RecvChallenge(s)
    \/ \E s \in 1..MaxSockets, id \in 1..MaxReqId, p \in Payloads :
          RecvResponse(s, id, TRUE, p, "")
    \/ \E s \in 1..MaxSockets : RecvUnparsable(s)
    \/ \E s \in 1..MaxSockets : ChatDelta(s, NoKey, NoRun, <<"a">>)
    \/ \E s \in 1..MaxSockets, n \in {"presence", "custom"}, k \in {NoKey, "A"} :
          PassThrough(s, n, k)

SpecFrames == Init /\ [][NextFrames]_vars

\* C29: a frame that does not parse emits no event, sends nothing, settles no
\* promise and changes no client state (sockets and their connect promises,
\* pending table, stream table, handshake state, reconnect counter); the frame
\* received after it is processed as usual: a hello-ok response authenticates
\* and resolves the connect promise, a response of a pending request settles it,
\* a chat fragment is merged.
C29_UnparsableFrameSwallowed ==
    [][/\ op'.name = "unparsable" =>
             /\ emitted' = <<>>
             /\ sentNow' = <<>>
             /\ settledNow' = <<>>
             /\ UNCHANGED <<clientVars, chunkCat>>
       /\ (op.name = "unparsable" /\ op'.name = "res") =>
             /\ IsHelloOk(op'.ok, op'.payload) =>
                   authenticated' /\ HasEvent(emitted', "connected")
             /\ (~IsHelloOk(op'.ok, op'.payload) /\ op'.id \in pendingRequests) =>
                   /\ op'.id \notin pendingRequests'
                   /\ Len(settledNow') = 1
       /\ (op.name = "unparsable" /\ op'.name = "chat.delta") =>
             TextOf(sessionStreams', resolveEventSessionKey(op'.key)) # <<>>]_vars

\* a frame that does not parse arrived while a request was pending, a stream
\* held text and the handshake was complete: all are still there
C29_Witness ==
    /\ op.name = "unparsable"
    /\ pendingRequests # {}
    /\ authenticated
    /\ TextOf(sessionStreams, FallbackKey) # <<>>

\* C30: a server event named neither connect.challenge, chat, presence nor
\* agent is emitted under its own name with its payload, a presence event is
\* emitted as agentStatus with its payload; the emission is the last of the
\* step, preceded by nothing but a subagentDetected, and the step changes no
\* stream, pending-request, handshake or connection state, sends nothing and
\* settles nothing.
C30_PassThrough ==
    [][op'.name \in {"presence", "custom"} =>
          /\ emitted' # <<>>
          /\ emitted'[Len(emitted')] =
                Ev(IF op'.name = "presence" THEN "agentStatus" ELSE op'.name,
                   op'.key, <<>>)
          /\ \A i \in 1..(Len(emitted') - 1) : emitted'[i].ev = "subagentDetected"
          /\ sentNow' = <<>>
          /\ settledNow' = <<>>
          /\ UNCHANGED <<clientVars, chunkCat>>]_vars

\* an event of another name was re-emitted while a request was pending and a
\* stream held text
C30_Witness ==
    /\ op.name = "custom"
    /\ HasEvent(emitted, "custom")
    /\ pendingRequests # {}
    /\ DOMAIN sessionStreams # {}

----------------------------------------------------------------------------
(* Connections without restraint on the caller: claims C31 - C34            *)

\* the client constructed with a ws:// or a wss:// URL
InitAnyScheme ==
    /\ socks = <<>>
    /\ ws = 0
    /\ scheme \in {"ws", "wss"}
    /\ requestId = 0
    /\ pendingRequests = {}
    /\ timers = {}
    /\ authenticated = FALSE
    /\ reconnectAttempts = 0
    /\ maxReconnectAttempts = DefaultMaxReconnectAttempts
    /\ reconnectTimers = 0
    /\ sessionStreams = EmptyStreams
    /\ parentSessionKeys = {}
    /\ defaultSessionKey = NoKey
    /\ sessionKeyResolved = FALSE
    /\ calls = [i \in {} |-> 0]
    /\ chunkCat = EmptyStreams
    /\ op = NoOp
    /\ emitted = <<>>
    /\ sentNow = <<>>
    /\ settledNow = <<>>

\* The caller may call connect() and disconnect() at any time, also while a
\* transport is alive or a reconnection is scheduled.
NextConnections ==
    \/ (Len(socks) < MaxSockets /\ Connect)
    \/ (Len(socks) < MaxSockets /\ ReconnectTimerFires)
    \/ Disconnect
    \/ \E s \in 1..MaxSockets : SockOpen(s)
    \/ \E s \in 1..MaxSockets, failed \in BOOLEAN : SockClose(s, failed)
    \/ \E s \in 1..MaxSockets : RecvChallenge(s)
    \/ \E s \in 1..MaxSockets : RecvResponse(s, 1, TRUE, "hello-ok", "")

SpecConnections == InitAnyScheme /\ [][NextConnections]_vars

\* the sockets whose transport the step closed
ClosedNow == {s \in DOMAIN socks : socks[s].rs # "CLOSED" /\ socks'[s].rs = "CLOSED"}

\* the error events of ws.onerror among evs
ErrorEvents(evs) == SelectSeq(evs, LAMBDA e : e.ev \in {"error", "certError"})

NextCalls ==
    \/ (ClientIdle /\ Len(socks) < MaxSockets /\ Connect)
    \/ Disconnect
    \/ \E s \in 1..MaxSockets : SockOpen(s)
    \/ \E s \in 1..MaxSockets, failed \in BOOLEAN : SockClose(s, failed)
    \/ Call(MethodFor(requestId + 1))
    \/ \E id \in 1..MaxReqId : Timeout(id)
    \/ \E s \in 1..MaxSockets, id \in 1..MaxReqId, p \in Payloads :
          RecvResponse(s, id, TRUE, p, "")
    \/ \E s \in 1..MaxSockets, id \in 1..MaxReqId : RecvResponse(s, id, FALSE, "", "boom")

SpecCalls ==
    /\ Init
    /\ [][NextCalls]_vars
    /\ \A id \in 1..MaxReqId : WF_vars(Timeout(id))

\* C32: every call() that passed the open-transport check is eventually
\* settled and its entry eventually leaves the pending table, whatever happens
\* to the connection, provided the timers that are due fire.
C32_CallEventuallySettled ==
    \A id \in 1..MaxReqId :
       (id \in pendingRequests) ~>
          (id \notin pendingRequests /\ id \in DOMAIN calls /\ calls[id].status # "pending")

\* a request outlived its connection and was rejected by its timer
C32_Witness ==
    /\ op.name = "timeout"
    /\ Len(settledNow) = 1
    /\ op.id \notin pendingRequests
    /\ calls[op.id].status = "timedout"
    /\ \A s \in DOMAIN socks : socks[s].rs = "CLOSED"

\* the same, where some step is taken as long as one is possible
SpecConnectionsFair == SpecConnections /\ WF_vars(NextConnections)

\* C33 as stated: once the transport of a connect() has closed, with its close
\* callback run, the promise of that connect() is eventually settled.
C33_ConnectEventuallySettled ==
    \A s \in 1..MaxSockets :
       (s \in DOMAIN socks /\ socks[s].rs = "CLOSED" /\ socks[s].attached) ~>
          (s \in DOMAIN socks /\ socks[s].promise # "pending")

\* the transports that are not closed and have their callbacks attached
LiveAttached == {s \in DOMAIN socks : socks[s].rs # "CLOSED" /\ socks[s].attached}

\* C34 as stated: at any time at most one transport that is not closed has its
\* callbacks attached to the client.
C34_SingleLogicalConnection == Cardinality(LiveAttached) <= 1

----------------------------------------------------------------------------
(* Event names and session keys of emitted events: claims C35 - C39         *)

\* names that a server may give to an event frame, among them names of the
\* client's own subscriber events
ServerEventNames == {"presence", "custom", "connected", "streamChunk"}

\* A server that also sends events under the names of the client's own events
NextServerNames ==
    \/ (ClientIdle /\ Len(socks) < MaxSockets /\ Connect)
    \/ (Len(socks) < MaxSockets /\ ReconnectTimerFires)
    \/ \E s \in 1..MaxSockets : SockOpen(s)
    \/ \E s \in 1..MaxSockets, failed \in BOOLEAN : SockClose(s, failed)
    \/ \E s \in 1..MaxSockets : RecvChallenge(s)
    \/ \E s \in 1..MaxSockets : RecvResponse(s, 1, TRUE, "hello-ok", "")
    \/ \E s \in 1..MaxSockets : ChatDelta(s, NoKey, NoRun, <<"a">>)
    \/ \E s \in 1..MaxSockets, n \in ServerEventNames : PassThrough(s, n, NoKey)

SpecServerNames == Init /\ [][NextServerNames]_vars

\* C35 as stated: 'connected' is emitted only by a step in which a hello-ok
\* response completes a handshake, and streamChunk only by a step that merges
\* a fragment; neither is emitted as the pass-through of a server event.
C35_OwnEventsOnlyFromClientLogic ==
    [][/\ HasEvent(emitted', "connected") =>
             /\ op'.name = "res"
             /\ IsHelloOk(op'.ok, op'.payload)
             /\ ~authenticated
             /\ authenticated'
       /\ HasEvent(emitted', "streamChunk") => op'.name \in FragmentOps]_vars

\* C36 as stated: a streamStart carries the key of the session whose stream it
\* starts, and every streamEnd carries the key of a started session, whose
\* stream it ends: the key its streamStart carried.
C36_StreamEndKeyMatchesStart ==
    [][\A i \in 1..Len(emitted') :
          /\ emitted'[i].ev = "streamStart" =>
                /\ ~IsStarted(sessionStreams, emitted'[i].key)
                /\ IsStarted(sessionStreams', emitted'[i].key)
          /\ emitted'[i].ev = "streamEnd" =>
                /\ IsStarted(sessionStreams, emitted'[i].key)
                /\ ~IsStarted(sessionStreams', emitted'[i].key)]_vars

\* C37 as stated: a step that removes the stream state of a started session
\* (a chat final, a close of the connection, disconnect()) emits a streamEnd.
C37_DiscardEmitsStreamEnd ==
    [][\A k \in DOMAIN sessionStreams :
          (IsStarted(sessionStreams, k) /\ k \notin DOMAIN sessionStreams') =>
             HasEvent(emitted', "streamEnd")]_vars

\* C38 as stated: whenever streamStart is emitted for a session, the text that
\* the session had accumulated before the step is empty and its blockOffset is 0.
C38_StartFromEmptyBuffer ==
    [][\A i \in 1..Len(emitted') :
          emitted'[i].ev = "streamStart" =>
             /\ getStream(emitted'[i].key).text = <<>>
             /\ getStream(emitted'[i].key).blockOffset = 0]_vars

\* C39 as stated: no step emits subagentDetected and streamSessionKey for the
\* same session key.
C39_SubagentNeverOwnKey ==
    [][EventKeysOf(emitted', "subagentDetected")
          \cap EventKeysOf(emitted', "streamSessionKey") = {}]_vars

====
